---------------------------- MODULE Spec2Model ----------------------------
(***************************************************************************)
(* Bootstrap of the go-cli template: path discovery, layered configuration *)
(* loading, directory creation, logger configuration, the runtime context  *)
(* handed to the command handlers, and the logger's emission path.         *)
(*                                                                         *)
(* Strings are sequences of one-character strings when the code inspects   *)
(* their characters (environment variable names, level names) and          *)
(* sequences of path tokens ("/" is a token of its own) when the code      *)
(* treats them as paths.  A nil pointer is the empty sequence <<>> and a   *)
(* pointer to n is <<n>>.                                                  *)
(***************************************************************************)
EXTENDS Integers, Sequences, FiniteSets, TLC

\* ------------------------------------------------------------------------
\* Characters

Lowers ==
    <<"a","b","c","d","e","f","g","h","i","j","k","l","m",
      "n","o","p","q","r","s","t","u","v","w","x","y","z">>

Uppers ==
    <<"A","B","C","D","E","F","G","H","I","J","K","L","M",
      "N","O","P","Q","R","S","T","U","V","W","X","Y","Z">>

Digits ==
    <<"0","1","2","3","4","5","6","7","8","9">>

\* the position of a character in a table, 0 when it is not in it
IndexIn(tbl, c) ==
    IF \E i \in 1..Len(tbl) : tbl[i] = c THEN CHOOSE i \in 1..Len(tbl) : tbl[i] = c ELSE 0

ToUpper(s) ==
    [i \in 1..Len(s) |->
        IF IndexIn(Lowers, s[i]) > 0 THEN Uppers[IndexIn(Lowers, s[i])] ELSE s[i]]

ToLower(s) ==
    [i \in 1..Len(s) |->
        IF IndexIn(Uppers, s[i]) > 0 THEN Lowers[IndexIn(Uppers, s[i])] ELSE s[i]]

RECURSIVE Flatten(_)
Flatten(ss) == IF ss = <<>> THEN <<>> ELSE Head(ss) \o Flatten(Tail(ss))

\* strings.NewReplacer(".", "__").Replace
ReplaceDots(s) ==
    Flatten([i \in 1..Len(s) |-> IF s[i] = "." THEN <<"_","_">> ELSE <<s[i]>>])

\* strconv-style parse of a decimal string; <<>> when it is not a number
RECURSIVE AtoiAcc(_, _)
AtoiAcc(s, acc) ==
    IF s = <<>> THEN <<acc>>
    ELSE IF IndexIn(Digits, Head(s)) = 0 THEN <<>>
    ELSE AtoiAcc(Tail(s), acc * 10 + (IndexIn(Digits, Head(s)) - 1))

Atoi(s) == IF s = <<>> THEN <<>> ELSE AtoiAcc(s, 0)

\* ------------------------------------------------------------------------
\* util.go

appName == <<"g","o","-","c","l","i">>

toEnvPrefix(name) ==
    [i \in 1..Len(name) |->
        IF IndexIn(Lowers, name[i]) > 0 THEN Uppers[IndexIn(Lowers, name[i])]
        ELSE IF IndexIn(Uppers, name[i]) > 0 \/ IndexIn(Digits, name[i]) > 0 THEN name[i]
        ELSE "_"]

EnvPrefix == toEnvPrefix(appName)


\* ------------------------------------------------------------------------
\* Environment.  env maps a variable name (characters) to its value; the
\* build modelled is GOOS = linux.

GOOS == "linux"

NHOME == <<"H","O","M","E">>

NXDG_CONFIG_HOME == <<"X","D","G","_","C","O","N","F","I","G","_","H","O","M","E">>

NXDG_DATA_HOME == <<"X","D","G","_","D","A","T","A","_","H","O","M","E">>

NXDG_STATE_HOME == <<"X","D","G","_","S","T","A","T","E","_","H","O","M","E">>

\* os.Getenv: "" for an unset variable
Getenv(e, name) == IF name \in DOMAIN e THEN e[name] ELSE <<>>

\* os.ExpandEnv
ExpandEnv(e, s) ==
    LET Var(tok) ==
            CASE tok = "$HOME" -> NHOME
              [] tok = "$XDG_DATA_HOME" -> NXDG_DATA_HOME
              [] tok = "$XDG_STATE_HOME" -> NXDG_STATE_HOME
              [] OTHER -> <<>>
    IN  Flatten([i \in 1..Len(s) |->
            IF s[i] \in {"$HOME", "$XDG_DATA_HOME", "$XDG_STATE_HOME", "$UNSET"}
            THEN Getenv(e, Var(s[i]))
            ELSE <<s[i]>>])

\* os.UserHomeDir on unix: $HOME, an error when it is empty
UserHomeDir(e) ==
    LET h == Getenv(e, NHOME)
    IN  [ok |-> h # <<>>, dir |-> h]

\* ------------------------------------------------------------------------
\* path/filepath

RECURSIVE ResolveDots(_, _, _)
ResolveDots(segs, acc, rooted) ==
    IF segs = <<>> THEN acc
    ELSE IF Head(segs) # ".." THEN ResolveDots(Tail(segs), Append(acc, Head(segs)), rooted)
    ELSE IF acc # <<>> /\ acc[Len(acc)] # ".."
         THEN ResolveDots(Tail(segs), SubSeq(acc, 1, Len(acc) - 1), rooted)
    ELSE IF rooted THEN ResolveDots(Tail(segs), acc, rooted)
    ELSE ResolveDots(Tail(segs), Append(acc, ".."), rooted)

RECURSIVE JoinSlash(_)
JoinSlash(segs) ==
    IF segs = <<>> THEN <<>>
    ELSE IF Len(segs) = 1 THEN segs
    ELSE <<Head(segs), "/">> \o JoinSlash(Tail(segs))

\* filepath.Clean
Clean(s) ==
    LET rooted == s # <<>> /\ s[1] = "/"
        segs == ResolveDots(SelectSeq(s, LAMBDA t : t # "/" /\ t # "."), <<>>, rooted)
    IN  IF rooted THEN <<"/">> \o JoinSlash(segs)
        ELSE IF segs = <<>> THEN <<".">>
        ELSE JoinSlash(segs)

\* filepath.Join of two elements (empty elements are ignored)
Join(a, b) ==
    IF a = <<>> /\ b = <<>> THEN <<>>
    ELSE IF a = <<>> THEN Clean(b)
    ELSE IF b = <<>> THEN Clean(a)
    ELSE Clean(a \o <<"/">> \o b)

IsAbs(p) == p # <<>> /\ p[1] = "/"

\* filepath.Dir
Dir(p) ==
    LET UpTo(last) == Clean(SubSeq(p, 1, last))
    IN  IF \E i \in 1..Len(p) : p[i] = "/"
        THEN UpTo(CHOOSE i \in 1..Len(p) : p[i] = "/" /\ \A j \in (i+1)..Len(p) : p[j] # "/")
        ELSE UpTo(0)

\* util.go expandPath
expandPath(e, path) ==
    LET Expanded(result, home) ==
            IF result = <<>> \/ result[1] \notin {"~", "~bob"}
            THEN [ok |-> TRUE, path |-> Clean(result)]
            ELSE IF ~home.ok THEN [ok |-> FALSE, path |-> <<>>]
            ELSE IF result = <<"~">> THEN [ok |-> TRUE, path |-> Clean(home.dir)]
            ELSE IF result[1] = "~" /\ Len(result) >= 2 /\ result[2] = "/"
                 THEN [ok |-> TRUE, path |-> Join(home.dir, SubSeq(result, 3, Len(result)))]
            ELSE [ok |-> TRUE, path |-> Clean(result)]
    IN  IF path = <<>> THEN [ok |-> TRUE, path |-> <<>>]
        ELSE Expanded(ExpandEnv(e, path), UserHomeDir(e))

\* ------------------------------------------------------------------------
\* File system.  fs maps a cleaned path to its entry; "/" and "." always
\* exist.  A file's text is a sequence of lines, a log file's lines are the
\* writes appended to it.  perm "none" denies reading a file and creating
\* entries in a directory.

DirEntry(perm) == [kind |-> "dir", perm |-> perm, text |-> <<>>, log |-> <<>>]

FileEntry(perm, text) == [kind |-> "file", perm |-> perm, text |-> text, log |-> <<>>]

RECURSIVE Ancestors(_)
Ancestors(p) ==
    IF Dir(p) = p THEN {} ELSE {Dir(p)} \cup Ancestors(Dir(p))

\* os.Stat: "file", "dir" or the error
Stat(f, p) ==
    IF \E a \in Ancestors(p) : a \in DOMAIN f /\ f[a].kind = "file" THEN "ENOTDIR"
    ELSE IF p \in DOMAIN f THEN f[p].kind
    ELSE "ENOENT"

IsNotExist(st) == st = "ENOENT"

Put(f, p, entry) == [q \in DOMAIN f \cup {p} |-> IF q = p THEN entry ELSE f[q]]

\* os.Mkdir
Mkdir(f, p) ==
    LET In(parent) ==
            IF p \in DOMAIN f THEN [err |-> "EEXIST", fs |-> f]
            ELSE IF parent \notin DOMAIN f THEN [err |-> "ENOENT", fs |-> f]
            ELSE IF f[parent].kind # "dir" THEN [err |-> "ENOTDIR", fs |-> f]
            ELSE IF f[parent].perm # "rw" THEN [err |-> "EACCES", fs |-> f]
            ELSE [err |-> "", fs |-> Put(f, p, DirEntry("rw"))]
    IN  In(Dir(p))

\* os.MkdirAll: the parents it created stay when a later one fails
RECURSIVE MkdirAll(_, _)
MkdirAll(f, p) ==
    LET Below(parent, up) == IF up.err # "" THEN up ELSE Mkdir(up.fs, p)
        In(parent) ==
            IF p \in DOMAIN f
            THEN [err |-> IF f[p].kind = "dir" THEN "" ELSE "ENOTDIR", fs |-> f]
            ELSE IF parent = p THEN [err |-> "ENOENT", fs |-> f]
            ELSE Below(parent, MkdirAll(f, parent))
    IN  In(Dir(p))

\* os.WriteFile: create or truncate
WriteFile(f, p, text) ==
    LET In(parent) ==
            IF p \in DOMAIN f /\ f[p].kind = "dir" THEN [err |-> "EISDIR", fs |-> f]
            ELSE IF p \in DOMAIN f /\ f[p].perm # "rw" THEN [err |-> "EACCES", fs |-> f]
            ELSE IF p \notin DOMAIN f /\ parent \notin DOMAIN f THEN [err |-> "ENOENT", fs |-> f]
            ELSE IF p \notin DOMAIN f /\ f[parent].kind # "dir" THEN [err |-> "ENOTDIR", fs |-> f]
            ELSE IF p \notin DOMAIN f /\ f[parent].perm # "rw" THEN [err |-> "EACCES", fs |-> f]
            ELSE [err |-> "", fs |-> Put(f, p, FileEntry("rw", text))]
    IN  In(Dir(p))

\* os.OpenFile(p, O_APPEND|O_CREATE|O_WRONLY): creates an empty file if missing
OpenAppend(f, p) ==
    IF p \in DOMAIN f
    THEN IF f[p].kind = "dir" THEN [err |-> "EISDIR", fs |-> f]
         ELSE IF f[p].perm # "rw" THEN [err |-> "EACCES", fs |-> f]
         ELSE [err |-> "", fs |-> f]
    ELSE WriteFile(f, p, <<>>)

\* os.ReadFile
ReadFile(f, p) ==
    LET Read(st) ==
            IF st = "dir" THEN [err |-> "EISDIR", text |-> <<>>]
            ELSE IF st # "file" THEN [err |-> st, text |-> <<>>]
            ELSE IF f[p].perm # "rw" THEN [err |-> "EACCES", text |-> <<>>]
            ELSE [err |-> "", text |-> f[p].text]
    IN  Read(Stat(f, p))

\* ------------------------------------------------------------------------
\* Configuration keys (viper's flattened, dot-separated names)

KProfile == <<"p","r","o","f","i","l","e">>

KLevel == <<"l","o","g","g","i","n","g",".","l","e","v","e","l">>

KFile == <<"l","o","g","g","i","n","g",".","f","i","l","e">>

KParallelism == <<"r","u","n","t","i","m","e",".","p","a","r","a","l","l","e","l","i","s","m">>

KTimeout == <<"r","u","n","t","i","m","e",".","t","i","m","e","o","u","t">>

KFailFast == <<"r","u","n","t","i","m","e",".","f","a","i","l","_","f","a","s","t">>

KDataDir == <<"p","a","t","h","s",".","d","a","t","a","_","d","i","r">>

KStateDir == <<"p","a","t","h","s",".","s","t","a","t","e","_","d","i","r">>

Keys == {KProfile, KLevel, KFile, KParallelism, KTimeout, KFailFast, KDataDir, KStateDir}

\* ------------------------------------------------------------------------
\* config.go: the defaults

SDefault == <<"d","e","f","a","u","l","t">>

SInfo == <<"i","n","f","o">>

STrue == <<"t","r","u","e">>

SFalse == <<"f","a","l","s","e">>

S60 == <<"6","0">>

defaultTimeout == 60

defaultConfig ==
    [profile |-> SDefault,
     logging |-> [level |-> SInfo, file |-> <<>>],
     runtime |-> [parallelism |-> <<>>, timeout |-> <<defaultTimeout>>, fail_fast |-> TRUE],
     paths   |-> [data_dir |-> <<>>, state_dir |-> <<>>]]

\* AppConfig{}
zeroConfig ==
    [profile |-> <<>>,
     logging |-> [level |-> <<>>, file |-> <<>>],
     runtime |-> [parallelism |-> <<>>, timeout |-> <<>>, fail_fast |-> FALSE],
     paths   |-> [data_dir |-> <<>>, state_dir |-> <<>>]]

\* A line of a TOML document: key = value, live or commented out.
Line(k, v, live) == [k |-> k, v |-> v, live |-> live]

defaultConfigHeader(path) == <<Line(<<"#">>, path, FALSE)>>

\* the generated file with the parallelism line left live
defaultConfigBody_ParallelismLive ==
    << Line(KProfile, SDefault, TRUE),
       Line(KLevel, SInfo, TRUE),
       Line(KFile, <<"~", "/", "Library", "/", "Logs", "/", "go-cli.log">>, FALSE),
       Line(KParallelism, <<"8">>, TRUE),
       Line(KTimeout, S60, TRUE),
       Line(KFailFast, STrue, TRUE),
       Line(KDataDir, <<"$XDG_DATA_HOME", "/", "go-cli">>, FALSE),
       Line(KStateDir, <<"$XDG_STATE_HOME", "/", "go-cli">>, FALSE) >>

defaultConfigBody ==
    << Line(KProfile, SDefault, TRUE),
       Line(KLevel, SInfo, TRUE),
       Line(KFile, <<"~", "/", "Library", "/", "Logs", "/", "go-cli.log">>, FALSE),
       Line(KParallelism, <<"8">>, FALSE),
       Line(KTimeout, S60, TRUE),
       Line(KFailFast, STrue, TRUE),
       Line(KDataDir, <<"$XDG_DATA_HOME", "/", "go-cli">>, FALSE),
       Line(KStateDir, <<"$XDG_STATE_HOME", "/", "go-cli">>, FALSE) >>

writeDefaultConfig(f, path) ==
    LET Written(wr) == [err |-> IF wr.err # "" THEN "write config" ELSE "", fs |-> wr.fs]
        Made(mk) ==
            IF mk.err # "" THEN [err |-> "create config directory", fs |-> mk.fs]
            ELSE Written(WriteFile(mk.fs, path, defaultConfigHeader(path) \o defaultConfigBody))
    IN  Made(MkdirAll(f, Dir(path)))

\* the "default" entries of configSchemaJSON, by key
configSchemaDefaults ==
    (KProfile :> SDefault) @@ (KLevel :> SInfo) @@ (KTimeout :> S60) @@ (KFailFast :> STrue)

\* ------------------------------------------------------------------------
\* viper, as config.go drives it

\* the TOML decoder: a live line whose key is not a key is a syntax error
ParseToml(text) ==
    LET live == {i \in 1..Len(text) : text[i].live}
    IN  IF \E i \in live : text[i].k = <<>>
        THEN [ok |-> FALSE, doc |-> <<>>]
        ELSE [ok |-> TRUE,
              doc |-> [k \in {text[i].k : i \in live} |->
                         text[CHOOSE i \in live : text[i].k = k /\
                                 \A j \in live : text[j].k = k => j <= i].v]]

\* the defaults registered with another timeout than the generated file's
ViperDefaults_OtherTimeout(cfg) ==
    (KProfile :> cfg.profile) @@ (KLevel :> cfg.logging.level) @@
    (KTimeout :> <<"3","0">>) @@ (KFailFast :> STrue)

\* v.SetDefault(...)
ViperDefaults(cfg) ==
    (KProfile :> cfg.profile) @@ (KLevel :> cfg.logging.level) @@
    (KTimeout :> S60) @@ (KFailFast :> STrue)

\* SetEnvPrefix + SetEnvKeyReplacer + AutomaticEnv: the variable consulted
\* for a key is upper(prefix + "_" + key) with "." replaced by "__"
EnvKey(key) == ReplaceDots(ToUpper(EnvPrefix \o <<"_">> \o key))

\* viper's getEnv: an empty variable counts as unset
ViperGetEnv(e, key) ==
    LET Lookup(name) == [ok |-> name \in DOMAIN e /\ e[name] # <<>>, val |-> Getenv(e, name)]
    IN  Lookup(EnvKey(key))

\* v.AllKeys(): the keys of the defaults and of the file, not the environment's
AllKeys(defaults, doc) == DOMAIN defaults \cup DOMAIN doc

\* v.Get(key): environment over file over default
ViperGet(e, defaults, doc, key) ==
    LET Over(fromEnv) ==
            IF fromEnv.ok THEN fromEnv.val
            ELSE IF key \in DOMAIN doc THEN doc[key]
            ELSE defaults[key]
    IN  Over(ViperGetEnv(e, key))

\* v.AllSettings()
AllSettings(e, defaults, doc) ==
    [k \in AllKeys(defaults, doc) |-> ViperGet(e, defaults, doc, k)]

\* mapstructure's weak decoding of a boolean
ParseBool(s) ==
    IF s \in {STrue, <<"1">>} THEN <<TRUE>>
    ELSE IF s \in {SFalse, <<"0">>} THEN <<FALSE>>
    ELSE <<>>

\* v.Unmarshal(&cfg): a field whose key is not among the settings keeps the
\* value cfg had
Unmarshal(settings, cfg) ==
    LET has(k) == k \in DOMAIN settings
        str(k, old) == IF has(k) THEN settings[k] ELSE old
        int(k, old) == IF has(k) THEN Atoi(settings[k]) ELSE old
        bad == \/ has(KParallelism) /\ Atoi(settings[KParallelism]) = <<>>
               \/ has(KTimeout) /\ Atoi(settings[KTimeout]) = <<>>
               \/ has(KFailFast) /\ ParseBool(settings[KFailFast]) = <<>>
    IN  IF bad THEN [ok |-> FALSE, cfg |-> cfg]
        ELSE [ok |-> TRUE,
              cfg |-> [profile |-> str(KProfile, cfg.profile),
                       logging |-> [level |-> str(KLevel, cfg.logging.level),
                                    file  |-> str(KFile, cfg.logging.file)],
                       runtime |-> [parallelism |-> int(KParallelism, cfg.runtime.parallelism),
                                    timeout     |-> int(KTimeout, cfg.runtime.timeout),
                                    fail_fast   |-> IF has(KFailFast)
                                                    THEN ParseBool(settings[KFailFast])[1]
                                                    ELSE cfg.runtime.fail_fast],
                       paths   |-> [data_dir  |-> str(KDataDir, cfg.paths.data_dir),
                                    state_dir |-> str(KStateDir, cfg.paths.state_dir)]]]

\* v.ReadInConfig(): read and parse the file named by SetConfigFile
ReadInConfig(f, path) ==
    LET Parsed(parsed) ==
            IF ~parsed.ok THEN [err |-> "parse", doc |-> <<>>]
            ELSE [err |-> "", doc |-> parsed.doc]
        Read(rd) == IF rd.err # "" THEN [err |-> rd.err, doc |-> <<>>] ELSE Parsed(ParseToml(rd.text))
    IN  Read(ReadFile(f, path))

\* ------------------------------------------------------------------------
\* config.go LoadOrInitConfig

\* LoadConfig letting a dry run pass over every error of ReadInConfig
LoadConfig_DryRunTolerant(e, f, configFile, dryRun) ==
    LET Timeout(c) ==
            IF c.runtime.timeout = <<>>
            THEN [c EXCEPT !.runtime.timeout = <<defaultTimeout>>]
            ELSE c
        Expanded(um, ex) ==
            IF ~ex.ok THEN [err |-> "expand log file path", cfg |-> zeroConfig, fs |-> f]
            ELSE [err |-> "", cfg |-> Timeout([um.cfg EXCEPT !.logging.file = ex.path]), fs |-> f]
        Decoded(um) ==
            IF ~um.ok THEN [err |-> "decode config", cfg |-> zeroConfig, fs |-> f]
            ELSE Expanded(um, expandPath(e, um.cfg.logging.file))
        Merged(cfg0, doc) == Decoded(Unmarshal(AllSettings(e, ViperDefaults(cfg0), doc), cfg0))
        Read(rd) ==
            IF rd.err # "" /\ ~dryRun
            THEN [err |-> "read config", cfg |-> zeroConfig, fs |-> f]
            ELSE Merged(defaultConfig, IF rd.err = "" THEN rd.doc ELSE <<>>)
    IN  Read(ReadInConfig(f, configFile))

\* the tail of LoadOrInitConfig, once the file has been ensured
LoadConfig(e, f, configFile, dryRun) ==
    LET Timeout(c) ==
            IF c.runtime.timeout = <<>>
            THEN [c EXCEPT !.runtime.timeout = <<defaultTimeout>>]
            ELSE c
        Expanded(um, ex) ==
            IF ~ex.ok THEN [err |-> "expand log file path", cfg |-> zeroConfig, fs |-> f]
            ELSE [err |-> "", cfg |-> Timeout([um.cfg EXCEPT !.logging.file = ex.path]), fs |-> f]
        Decoded(um) ==
            IF ~um.ok THEN [err |-> "decode config", cfg |-> zeroConfig, fs |-> f]
            ELSE Expanded(um, expandPath(e, um.cfg.logging.file))
        Merged(cfg0, doc) == Decoded(Unmarshal(AllSettings(e, ViperDefaults(cfg0), doc), cfg0))
        Read(rd) ==
            IF rd.err # "" /\ ~(dryRun /\ IsNotExist(rd.err))
            THEN [err |-> "read config", cfg |-> zeroConfig, fs |-> f]
            ELSE Merged(defaultConfig, IF rd.err = "" THEN rd.doc ELSE <<>>)
    IN  Read(ReadInConfig(f, configFile))

\* LoadOrInitConfig returning the bare defaults when a dry run finds no file
LoadOrInitConfig_DryRunPureDefaults(e, f, configFile, dryRun) ==
    LET Load(en) ==
            IF en.err # "" THEN [err |-> en.err, cfg |-> zeroConfig, fs |-> en.fs]
            ELSE IF en.missing /\ dryRun THEN [err |-> "", cfg |-> defaultConfig, fs |-> f]
            ELSE LoadConfig(e, en.fs, configFile, dryRun)
        Ensured(st, missing) ==
            IF IsNotExist(st)
            THEN IF dryRun THEN [err |-> "", fs |-> f, missing |-> missing]
                 ELSE writeDefaultConfig(f, configFile) @@ [missing |-> missing]
            ELSE IF st \notin {"file", "dir"}
            THEN [err |-> "failed to stat config file", fs |-> f, missing |-> missing]
            ELSE [err |-> "", fs |-> f, missing |-> missing]
        Statted(st) == Load(Ensured(st, IsNotExist(st)))
    IN  Statted(Stat(f, configFile))

\* LoadOrInitConfig writing the default file without looking for an existing one
LoadOrInitConfig_AlwaysWrites(e, f, configFile, dryRun) ==
    LET Load(en) ==
            IF en.err # "" THEN [err |-> en.err, cfg |-> zeroConfig, fs |-> en.fs]
            ELSE LoadConfig(e, en.fs, configFile, dryRun)
        Ensured(st) ==
            IF st \notin {"file", "dir"} /\ ~IsNotExist(st)
            THEN [err |-> "failed to stat config file", fs |-> f]
            ELSE IF dryRun THEN [err |-> "", fs |-> f]
            ELSE writeDefaultConfig(f, configFile)
    IN  Load(Ensured(Stat(f, configFile)))

LoadOrInitConfig(e, f, configFile, dryRun) ==
    LET Load(en) ==
            IF en.err # "" THEN [err |-> en.err, cfg |-> zeroConfig, fs |-> en.fs]
            ELSE LoadConfig(e, en.fs, configFile, dryRun)
        Ensured(st) ==
            IF IsNotExist(st)
            THEN IF dryRun THEN [err |-> "", fs |-> f] ELSE writeDefaultConfig(f, configFile)
            ELSE IF st \notin {"file", "dir"}
            THEN [err |-> "failed to stat config file", fs |-> f]
            ELSE [err |-> "", fs |-> f]
    IN  Load(Ensured(Stat(f, configFile)))

\* ------------------------------------------------------------------------
\* paths: DiscoverPaths, ApplyPathOverrides, EnsureDirectories

NAPPDATA == <<"A","P","P","D","A","T","A">>

NLOCALAPPDATA == <<"L","O","C","A","L","A","P","P","D","A","T","A">>

appDir == <<"go-cli">>

zeroPaths == [configFile |-> <<>>, dataDir |-> <<>>, stateDir |-> <<>>]

\* os.UserConfigDir
UserConfigDir(e) ==
    LET From(appdata, home, xdg) ==
            IF GOOS = "windows" THEN [ok |-> appdata # <<>>, dir |-> appdata]
            ELSE IF GOOS = "darwin"
            THEN [ok |-> home # <<>>,
                  dir |-> home \o <<"/", "Library", "/", "Application Support">>]
            ELSE IF xdg # <<>> THEN [ok |-> IsAbs(xdg), dir |-> xdg]
            ELSE [ok |-> home # <<>>, dir |-> home \o <<"/", ".config">>]
    IN  From(Getenv(e, NAPPDATA), Getenv(e, NHOME), Getenv(e, NXDG_CONFIG_HOME))

\* os.UserCacheDir
UserCacheDir(e) ==
    LET From(local, home) ==
            IF GOOS = "windows" THEN [ok |-> local # <<>>, dir |-> local]
            ELSE IF GOOS = "darwin"
            THEN [ok |-> home # <<>>, dir |-> home \o <<"/", "Library", "/", "Caches">>]
            ELSE [ok |-> home # <<>>, dir |-> home \o <<"/", ".cache">>]
    IN  From(Getenv(e, NLOCALAPPDATA), Getenv(e, NHOME))

defaultConfigDir(e) ==
    LET Under(root, more) == [ok |-> TRUE, dir |-> Join(Join(root, more), appDir)]
        From(xdg, appdata, ucd, home) ==
            IF xdg # <<>> THEN Under(xdg, <<>>)
            ELSE IF GOOS = "windows" /\ appdata # <<>> THEN Under(appdata, <<>>)
            ELSE IF ucd.ok /\ ucd.dir # <<>> THEN Under(ucd.dir, <<>>)
            ELSE IF ~home.ok THEN [ok |-> FALSE, dir |-> <<>>]
            ELSE Under(home.dir, <<".config">>)
    IN  From(Getenv(e, NXDG_CONFIG_HOME), Getenv(e, NAPPDATA), UserConfigDir(e),
             UserHomeDir(e))

defaultDataDir(e) ==
    LET Under(root, more) == [ok |-> TRUE, dir |-> Join(Join(root, more), appDir)]
        From(xdg, local, ucd, home) ==
            IF xdg # <<>> THEN Under(xdg, <<>>)
            ELSE IF GOOS = "windows" /\ local # <<>> THEN Under(local, <<>>)
            ELSE IF ucd.ok /\ ucd.dir # <<>> /\ GOOS = "darwin" THEN Under(ucd.dir, <<>>)
            ELSE IF ~home.ok THEN [ok |-> FALSE, dir |-> <<>>]
            ELSE Under(home.dir, <<".local", "/", "share">>)
    IN  From(Getenv(e, NXDG_DATA_HOME), Getenv(e, NLOCALAPPDATA), UserCacheDir(e),
             UserHomeDir(e))

defaultStateDir_FallsBackToShare(e) ==
    LET Under(root, more) == [ok |-> TRUE, dir |-> Join(Join(root, more), appDir)]
        From(xdg, local, home) ==
            IF xdg # <<>> THEN Under(xdg, <<>>)
            ELSE IF GOOS = "windows" /\ local # <<>> THEN Under(local, <<>>)
            ELSE IF ~home.ok THEN [ok |-> FALSE, dir |-> <<>>]
            ELSE Under(home.dir, <<".local", "/", "share">>)
    IN  From(Getenv(e, NXDG_STATE_HOME), Getenv(e, NLOCALAPPDATA), UserHomeDir(e))

defaultStateDir(e) ==
    LET Under(root, more) == [ok |-> TRUE, dir |-> Join(Join(root, more), appDir)]
        From(xdg, local, home) ==
            IF xdg # <<>> THEN Under(xdg, <<>>)
            ELSE IF GOOS = "windows" /\ local # <<>> THEN Under(local, <<>>)
            ELSE IF ~home.ok THEN [ok |-> FALSE, dir |-> <<>>]
            ELSE Under(home.dir, <<".local", "/", "state">>)
    IN  From(Getenv(e, NXDG_STATE_HOME), Getenv(e, NLOCALAPPDATA), UserHomeDir(e))

resolveConfigFile_OverrideAsIs(e, f, override) ==
    LET Named(path) == [ok |-> TRUE, path |-> path]
        Given(ex) ==
            IF ~ex.ok THEN [ok |-> FALSE, path |-> <<>>]
            ELSE Named(ex.path)
        Default(dir) ==
            IF ~dir.ok THEN [ok |-> FALSE, path |-> <<>>]
            ELSE Named(Join(dir.dir, <<"config.toml">>))
    IN  IF override # <<>> THEN Given(expandPath(e, override))
        ELSE Default(defaultConfigDir(e))

resolveConfigFile(e, f, override) ==
    LET Named(path) == [ok |-> TRUE, path |-> path]
        Given(ex) ==
            IF ~ex.ok THEN [ok |-> FALSE, path |-> <<>>]
            ELSE Named(IF Stat(f, ex.path) = "dir" THEN Join(ex.path, <<"config.toml">>)
                       ELSE ex.path)
        Default(dir) ==
            IF ~dir.ok THEN [ok |-> FALSE, path |-> <<>>]
            ELSE Named(Join(dir.dir, <<"config.toml">>))
    IN  IF override # <<>> THEN Given(expandPath(e, override))
        ELSE Default(defaultConfigDir(e))

DiscoverPaths(e, f, override) ==
    LET Found(c, d, s) ==
            IF ~c.ok \/ ~d.ok \/ ~s.ok THEN [ok |-> FALSE, paths |-> zeroPaths]
            ELSE [ok |-> TRUE,
                  paths |-> [configFile |-> c.path, dataDir |-> d.dir, stateDir |-> s.dir]]
    IN  Found(resolveConfigFile(e, f, override), defaultDataDir(e), defaultStateDir(e))

\* ApplyPathOverrides replacing both directories whatever the config holds
ApplyPathOverrides_AlwaysReplaces(e, p, c) ==
    LET Applied(d, s) ==
            IF ~d.ok THEN [ok |-> FALSE, paths |-> zeroPaths]
            ELSE IF ~s.ok THEN [ok |-> FALSE, paths |-> zeroPaths]
            ELSE [ok |-> TRUE,
                  paths |-> [configFile |-> p.configFile,
                             dataDir |-> d.path,
                             stateDir |-> s.path]]
    IN  Applied(expandPath(e, c.paths.data_dir), expandPath(e, c.paths.state_dir))

ApplyPathOverrides(e, p, c) ==
    LET Applied(d, s) ==
            IF c.paths.data_dir # <<>> /\ ~d.ok THEN [ok |-> FALSE, paths |-> zeroPaths]
            ELSE IF c.paths.state_dir # <<>> /\ ~s.ok THEN [ok |-> FALSE, paths |-> zeroPaths]
            ELSE [ok |-> TRUE,
                  paths |-> [configFile |-> p.configFile,
                             dataDir |-> IF c.paths.data_dir # <<>> THEN d.path
                                         ELSE p.dataDir,
                             stateDir |-> IF c.paths.state_dir # <<>> THEN s.path
                                          ELSE p.stateDir]]
    IN  Applied(expandPath(e, c.paths.data_dir), expandPath(e, c.paths.state_dir))

\* EnsureDirectories without the dry-run early return
EnsureDirectories_IgnoresDryRun(f, p, dryRun) ==
    LET Made(dir, mk) ==
            [err |-> IF mk.err # "" THEN "creating directory" ELSE "", fs |-> mk.fs,
             dir |-> IF mk.err # "" THEN dir ELSE <<>>]
        Ensure(g, dir) ==
            IF dir = <<>> THEN [err |-> "", fs |-> g, dir |-> <<>>]
            ELSE Made(dir, MkdirAll(g, dir))
        Second(d) == IF d.err # "" THEN d ELSE Ensure(d.fs, p.stateDir)
    IN  Second(Ensure(f, p.dataDir))

\* EnsureDirectories creating the data directory only
EnsureDirectories_DataDirOnly(f, p, dryRun) ==
    LET Made(dir, mk) ==
            [err |-> IF mk.err # "" THEN "creating directory" ELSE "", fs |-> mk.fs,
             dir |-> IF mk.err # "" THEN dir ELSE <<>>]
        Ensure(g, dir) ==
            IF dir = <<>> THEN [err |-> "", fs |-> g, dir |-> <<>>]
            ELSE Made(dir, MkdirAll(g, dir))
    IN  IF dryRun THEN [err |-> "", fs |-> f, dir |-> <<>>]
        ELSE Ensure(f, p.dataDir)

EnsureDirectories(f, p, dryRun) ==
    LET Made(dir, mk) ==
            [err |-> IF mk.err # "" THEN "creating directory" ELSE "", fs |-> mk.fs,
             dir |-> IF mk.err # "" THEN dir ELSE <<>>]
        Ensure(g, dir) ==
            IF dir = <<>> THEN [err |-> "", fs |-> g, dir |-> <<>>]
            ELSE Made(dir, MkdirAll(g, dir))
        Second(d) == IF d.err # "" THEN d ELSE Ensure(d.fs, p.stateDir)
    IN  IF dryRun THEN [err |-> "", fs |-> f, dir |-> <<>>]
        ELSE Second(Ensure(f, p.dataDir))

\* ------------------------------------------------------------------------
\* logging: levels, settings, the logger

LevelError == 0

LevelWarn == 1

LevelInfo == 2

LevelDebug == 3

LevelTrace == 4

Levels == LevelError..LevelTrace

\* parseLevel comparing the configured string as written
parseLevel_CaseSensitive(value) ==
    CASE value = <<"t","r","a","c","e">> -> LevelTrace
      [] value = <<"d","e","b","u","g">> -> LevelDebug
      [] value = <<"w","a","r","n">> -> LevelWarn
      [] value = <<"e","r","r","o","r">> -> LevelError
      [] OTHER -> LevelInfo

parseLevel(value) ==
    LET v == ToLower(value)
    IN  CASE v = <<"t","r","a","c","e">> -> LevelTrace
          [] v = <<"d","e","b","u","g">> -> LevelDebug
          [] v = <<"w","a","r","n">> -> LevelWarn
          [] v = <<"e","r","r","o","r">> -> LevelError
          [] OTHER -> LevelInfo

\* the switch of ResolveLogSettings that picks the level
resolveLevel(fl, c) ==
    LET Pick(level) ==
            IF fl.trace THEN LevelTrace
            ELSE IF fl.debug THEN LevelDebug
            ELSE IF fl.verbose >= 2 THEN LevelTrace
            ELSE IF fl.verbose = 1 THEN LevelDebug
            ELSE IF fl.quiet /\ level > LevelError THEN LevelError
            ELSE level
    IN  Pick(parseLevel(c.logging.level))

\* util.go isTerminal(os.Stderr) is tty, a fact of the invocation
shouldColorize(policy, tty) ==
    CASE policy = "always" -> TRUE
      [] policy = "never" -> FALSE
      [] OTHER -> tty

zeroLogSettings ==
    [level |-> LevelError, diagnostics |-> FALSE, colorize |-> FALSE,
     writers |-> <<>>, fileHandle |-> <<>>]

ResolveLogSettings_QuietKeepsDiscard(f, fl, c, tty) ==
    LET Settings(open, writers0) ==
            [level |-> resolveLevel(fl, c),
             diagnostics |-> fl.diagnostics,
             colorize |-> shouldColorize(IF fl.noColor THEN "never" ELSE fl.color, tty),
             writers |-> IF ~open THEN writers0
                         ELSE Append(writers0, "file"),
             fileHandle |-> IF open THEN <<c.logging.file>> ELSE <<>>]
        Opened(open, op) ==
            IF open /\ op.err # ""
            THEN [err |-> "open log file", settings |-> zeroLogSettings, fs |-> op.fs]
            ELSE [err |-> "",
                  settings |-> Settings(open, IF fl.quiet THEN <<"discard">> ELSE <<"stderr">>),
                  fs |-> IF open THEN op.fs ELSE f]
    IN  Opened(c.logging.file # <<>> /\ ~fl.dryRun, OpenAppend(f, c.logging.file))

ResolveLogSettings(f, fl, c, tty) ==
    LET Settings(open, writers0) ==
            [level |-> resolveLevel(fl, c),
             diagnostics |-> fl.diagnostics,
             colorize |-> shouldColorize(IF fl.noColor THEN "never" ELSE fl.color, tty),
             writers |-> IF ~open THEN writers0
                         ELSE IF ~fl.quiet THEN Append(writers0, "file")
                         ELSE <<"file">>,
             fileHandle |-> IF open THEN <<c.logging.file>> ELSE <<>>]
        Opened(open, op) ==
            IF open /\ op.err # ""
            THEN [err |-> "open log file", settings |-> zeroLogSettings, fs |-> op.fs]
            ELSE [err |-> "",
                  settings |-> Settings(open, IF fl.quiet THEN <<"discard">> ELSE <<"stderr">>),
                  fs |-> IF open THEN op.fs ELSE f]
    IN  Opened(c.logging.file # <<>> /\ ~fl.dryRun, OpenAppend(f, c.logging.file))

\* Logger{settings, mu}
ConfigureLogger(settings) ==
    [settings |-> IF Len(settings.writers) = 0
                  THEN [settings EXCEPT !.writers = <<"discard">>]
                  ELSE settings,
     mu |-> "unlocked"]

levelAttributes(level) ==
    CASE level = LevelError -> <<"ERROR", "red">>
      [] level = LevelWarn -> <<"WARN", "yellow">>
      [] level = LevelInfo -> <<"INFO", "cyan">>
      [] level = LevelDebug -> <<"DEBUG", "magenta">>
      [] level = LevelTrace -> <<"TRACE", "blue">>
      [] OTHER -> <<"INFO", "">>

\* the formatted line: [timestamp] label body, the label wrapped in its color
formatMessage(level, settings, body) ==
    LET Labelled(attr) ==
            IF settings.colorize /\ attr[2] # "" THEN <<attr[2], attr[1], "reset">>
            ELSE <<attr[1]>>
    IN  (IF settings.diagnostics THEN <<"[timestamp]">> ELSE <<>>)
            \o Labelled(levelAttributes(level)) \o <<body>>

NewLine == <<"\n">>

\* io.WriteString(w, s) on one writer; out is the stderr stream, f the disk.
\* A write through a closed handle fails and the code ignores the error.
WriteString(w, item, settings, handleOpen, out, f) ==
    IF w = "stderr" THEN [out |-> Append(out, item), fs |-> f]
    ELSE IF w = "file" /\ handleOpen /\ settings.fileHandle # <<>>
              /\ settings.fileHandle[1] \in DOMAIN f
    THEN LET p == settings.fileHandle[1]
         IN  [out |-> out, fs |-> [f EXCEPT ![p].log = Append(@, item)]]
    ELSE [out |-> out, fs |-> f]

\* the loop of Logger.log over the writers, from writer i on; seq lists the
\* io.WriteString calls it makes, in order
RECURSIVE WriteAll(_, _, _, _, _, _)
WriteAll(i, item, settings, handleOpen, out, f) ==
    LET Called(w, r) ==
            [r EXCEPT !.seq = <<[w |-> w, item |-> item], [w |-> w, item |-> NewLine]>> \o @]
        Rest(b) == Called(settings.writers[i],
                          WriteAll(i + 1, item, settings, handleOpen, b.out, b.fs))
        Newline(a) == Rest(WriteString(settings.writers[i], NewLine, settings, handleOpen,
                                    a.out, a.fs))
    IN  IF i > Len(settings.writers) THEN [out |-> out, fs |-> f, seq |-> <<>>]
        ELSE Newline(WriteString(settings.writers[i], item, settings, handleOpen, out, f))

Log_DropsEqualSeverity(l, level, body, handleOpen, out, f) ==
    IF level >= l.settings.level THEN [out |-> out, fs |-> f, seq |-> <<>>]
    ELSE WriteAll(1, formatMessage(level, l.settings, body), l.settings, handleOpen, out, f)

\* Logger.log run by one goroutine alone
Log(l, level, body, handleOpen, out, f) ==
    IF level > l.settings.level THEN [out |-> out, fs |-> f, seq |-> <<>>]
    ELSE WriteAll(1, formatMessage(level, l.settings, body), l.settings, handleOpen, out, f)

\* Logger.Close: h is the state of the file behind settings.FileHandle.  The
\* Logger keeps the handle and its writers; os.File.Close on a file that is
\* already closed returns an error.
LoggerClose(l, h) ==
    IF l.settings.fileHandle # <<>>
    THEN IF h = "open" THEN [err |-> "", handle |-> "closed"]
         ELSE [err |-> "file already closed", handle |-> h]
    ELSE [err |-> "", handle |-> h]

\* RuntimeContext.Close; r is <<>> for a nil context
Close(r, h) ==
    IF r = <<>> THEN [err |-> "", handle |-> h]
    ELSE LoggerClose(r[1].Logger, h)

\* ------------------------------------------------------------------------
\* config.go / flags.go: what the handlers compute

NumCPU == 4

defaultParallelism == IF NumCPU > 0 THEN NumCPU ELSE 1

\* WithProfileOverride returning the config as it is
WithProfileOverride_KeepsConfig(c, profile) == c

WithProfileOverride(c, profile) ==
    IF profile # <<>> THEN [c EXCEPT !.profile = profile] ELSE c

RunConfig(c) == [profile |-> c.profile, runtime |-> c.runtime]

ValidateColor(fl) == fl.color \in {"", "auto", "always", "never"}

\* HandleRun storing the --timeout value in the int the config points to
RunResult_WritesThroughPointer(ctx, opts) ==
    LET Cell(p, name) == IF p = <<>> THEN "nil" ELSE name
        Value(p) == IF p # <<>> THEN p[1] ELSE 0
        Deref(heap, ptr) == IF ptr = "nil" THEN 0 ELSE heap[ptr]
        Through(c, heap) ==
            [c EXCEPT !.runtime.parallelism =
                          IF @ = <<>> THEN <<>> ELSE <<heap["cfg.parallelism"]>>,
                      !.runtime.timeout =
                          IF @ = <<>> THEN <<>> ELSE <<heap["cfg.timeout"]>>]
        Report(runCfg, heap, p, t) ==
            [report |-> [task |-> opts.task,
                         profile |-> runCfg.profile,
                         parallelism |-> Deref(heap, p),
                         timeout |-> Deref(heap, t)],
             config |-> Through(ctx.Config, heap)]
        Timeout(runCfg, heap, p, t) ==
            IF ctx.Common.timeout = <<>> THEN Report(runCfg, heap, p, t)
            ELSE IF t = "nil" THEN Report(runCfg, ("v3" :> ctx.Common.timeout[1]) @@ heap, p, "v3")
            ELSE Report(runCfg, [heap EXCEPT ![t] = ctx.Common.timeout[1]], p, t)
        Fallback(runCfg, heap, p, t) ==
            IF p = "nil" THEN Timeout(runCfg, ("v2" :> defaultParallelism) @@ heap, "v2", t)
            ELSE Timeout(runCfg, heap, p, t)
        Parallel(runCfg, heap, p, t) ==
            IF ctx.Common.parallelism = <<>> THEN Fallback(runCfg, heap, p, t)
            ELSE Fallback(runCfg, ("v1" :> ctx.Common.parallelism[1]) @@ heap, "v1", t)
    IN  Parallel(RunConfig(WithProfileOverride(ctx.Config, opts.profile)),
                 ("cfg.parallelism" :> Value(ctx.Config.runtime.parallelism)) @@
                 ("cfg.timeout" :> Value(ctx.Config.runtime.timeout)),
                 Cell(ctx.Config.runtime.parallelism, "cfg.parallelism"),
                 Cell(ctx.Config.runtime.timeout, "cfg.timeout"))

\* the values HandleRun reports.  The *int fields are pointers and heap maps
\* a cell to the int in it: "cfg.parallelism" and "cfg.timeout" are the cells
\* ctx.Config points to (WithProfileOverride and RunConfig copy the pointers,
\* not the cells), v1, v2 and v3 the locals named value whose address
\* HandleRun takes.  config is ctx.Config as its pointers read afterwards.
RunResult(ctx, opts) ==
    LET Cell(p, name) == IF p = <<>> THEN "nil" ELSE name
        Value(p) == IF p # <<>> THEN p[1] ELSE 0
        Deref(heap, ptr) == IF ptr = "nil" THEN 0 ELSE heap[ptr]
        Through(c, heap) ==
            [c EXCEPT !.runtime.parallelism =
                          IF @ = <<>> THEN <<>> ELSE <<heap["cfg.parallelism"]>>,
                      !.runtime.timeout =
                          IF @ = <<>> THEN <<>> ELSE <<heap["cfg.timeout"]>>]
        Report(runCfg, heap, p, t) ==
            [report |-> [task |-> opts.task,
                         profile |-> runCfg.profile,
                         parallelism |-> Deref(heap, p),
                         timeout |-> Deref(heap, t)],
             config |-> Through(ctx.Config, heap)]
        Timeout(runCfg, heap, p, t) ==
            IF ctx.Common.timeout = <<>> THEN Report(runCfg, heap, p, t)
            ELSE Report(runCfg, ("v3" :> ctx.Common.timeout[1]) @@ heap, p, "v3")
        Fallback(runCfg, heap, p, t) ==
            IF p = "nil" THEN Timeout(runCfg, ("v2" :> defaultParallelism) @@ heap, "v2", t)
            ELSE Timeout(runCfg, heap, p, t)
        Parallel(runCfg, heap, p, t) ==
            IF ctx.Common.parallelism = <<>> THEN Fallback(runCfg, heap, p, t)
            ELSE Fallback(runCfg, ("v1" :> ctx.Common.parallelism[1]) @@ heap, "v1", t)
    IN  Parallel(RunConfig(WithProfileOverride(ctx.Config, opts.profile)),
                 ("cfg.parallelism" :> Value(ctx.Config.runtime.parallelism)) @@
                 ("cfg.timeout" :> Value(ctx.Config.runtime.timeout)),
                 Cell(ctx.Config.runtime.parallelism, "cfg.parallelism"),
                 Cell(ctx.Config.runtime.timeout, "cfg.timeout"))

\* ------------------------------------------------------------------------
\* context.go NewRuntimeContext as one call: what it returns and the disk it
\* leaves behind

NewRuntimeContext(e, f, fl, term) ==
    LET d == DiscoverPaths(e, f, fl.configPath)
        l == LoadOrInitConfig(e, f, d.paths.configFile, fl.dryRun)
        a == ApplyPathOverrides(e, d.paths, l.cfg)
        m == EnsureDirectories(l.fs, a.paths, fl.dryRun)
        r == ResolveLogSettings(m.fs, fl, l.cfg, term)
    IN  IF ~d.ok THEN [ok |-> FALSE, paths |-> zeroPaths, cfg |-> zeroConfig, fs |-> f]
        ELSE IF l.err # "" THEN [ok |-> FALSE, paths |-> zeroPaths, cfg |-> zeroConfig, fs |-> l.fs]
        ELSE IF ~a.ok THEN [ok |-> FALSE, paths |-> zeroPaths, cfg |-> zeroConfig, fs |-> l.fs]
        ELSE IF m.err # "" THEN [ok |-> FALSE, paths |-> zeroPaths, cfg |-> zeroConfig, fs |-> m.fs]
        ELSE IF r.err # "" THEN [ok |-> FALSE, paths |-> zeroPaths, cfg |-> zeroConfig, fs |-> r.fs]
        ELSE [ok |-> TRUE, paths |-> a.paths, cfg |-> l.cfg, fs |-> r.fs]

\* ------------------------------------------------------------------------
\* State

VARIABLES
    env,          \* the process environment: variable name -> value
    tty,          \* whether stderr is a terminal
    fs,           \* the disk
    flags,        \* CommonFlags of the invocation
    command,      \* the subcommand and its options
    pc,           \* where the process is: idle, prerun, bootstrap, handler, returned, failed, exited
    stage,        \* the assembler's state inside NewRuntimeContext
    paths,        \* AppPaths as computed so far
    cfg,          \* AppConfig as loaded
    logSettings,  \* LogSettings as resolved
    rtx,          \* <<>> or <<the RuntimeContext the caller received>>
    err,          \* the error the invocation ended with, "" for none
    handle,       \* the log-file handle: none, open, closed
    closeCalls,   \* how often RuntimeContext.Close ran in this invocation
    stderr,       \* what was written to the standard error stream
    out,          \* what the operation under study returned or printed
    hist,         \* history: the disk at start, the previous bootstrap's result
    workers       \* goroutines calling the logger: their position and locals

vars == <<env, tty, fs, flags, command, pc, stage, paths, cfg, logSettings, rtx,
          err, handle, closeCalls, stderr, out, hist, workers>>

\* ------------------------------------------------------------------------
\* Inputs

HomeDir == <<"/", "home", "/", "u">>

LogFile == <<"/", "home", "/", "u", "/", "app.log">>

\* the disk before anything of the application exists
BaseDisk ==
    (<<"/">> :> DirEntry("rw")) @@ (<<".">> :> DirEntry("rw")) @@
    (<<"/", "home">> :> DirEntry("rw")) @@ (HomeDir :> DirEntry("rw"))

EnvHome == (NHOME :> HomeDir)

EnvXdg ==
    EnvHome @@ (NXDG_CONFIG_HOME :> <<"/", "cfg">>) @@
    (NXDG_DATA_HOME :> <<"/", "data">>) @@ (NXDG_STATE_HOME :> <<"/", "state">>)

EnvNone == (NXDG_CONFIG_HOME :> <<"/", "cfg">>)

EnvDebug == EnvHome @@ (EnvKey(KLevel) :> <<"d","e","b","u","g">>)

Envs == {EnvHome, EnvXdg, EnvNone, EnvDebug}

Overrides == {<<>>, <<"~">>, <<"/", "data", "/", "go-cli">>}

\* a config file a user wrote: no timeout, a log file, a data directory
UserText(logFile) ==
    << Line(KLevel, <<"D","E","B","U","G">>, TRUE),
       Line(KFile, logFile, TRUE),
       Line(KDataDir, <<"$HOME", "/", "appdata">>, TRUE),
       Line(KTimeout, <<"3","0">>, FALSE) >>

MalformedText == <<Line(KProfile, SDefault, TRUE), Line(<<>>, <<>>, TRUE)>>

UserTexts ==
    {UserText(<<"~", "/", "app.log">>), UserText(<<"~", "/", "logs", "/", "app.log">>)}

\* the disks an invocation may find: no config file, the generated one, a
\* user's, a malformed one, an unreadable one
DisksFor(e, override) ==
    LET With(cf, withDir) ==
            IF cf \in DOMAIN withDir THEN {BaseDisk}
            ELSE {BaseDisk, writeDefaultConfig(BaseDisk, cf).fs}
                 \cup {Put(withDir, cf, FileEntry("rw", t)) : t \in UserTexts \cup {MalformedText}}
                 \cup {Put(withDir, cf, FileEntry("none", defaultConfigBody))}
        For(d) ==
            IF ~d.ok THEN {BaseDisk}
            ELSE With(d.paths.configFile, MkdirAll(BaseDisk, Dir(d.paths.configFile)).fs)
    IN  For(DiscoverPaths(e, BaseDisk, override))

Commands ==
    {[name |-> n, force |-> FALSE, task |-> "default", profile |-> <<>>] : n \in {"run", "init", "config show", "config path", "config reset"}}
    \cup {[name |-> "init", force |-> TRUE, task |-> "default", profile |-> <<>>],
          [name |-> "run", force |-> FALSE, task |-> "build", profile |-> <<"q","a">>]}

NoCommand == [name |-> "", force |-> FALSE, task |-> "", profile |-> <<>>]

defaultFlags ==
    [configPath |-> <<>>, quiet |-> FALSE, verbose |-> 0, debug |-> FALSE, trace |-> FALSE,
     json |-> FALSE, yaml |-> FALSE, noColor |-> FALSE, color |-> "auto", dryRun |-> FALSE,
     assumeYes |-> FALSE, timeout |-> <<>>, parallelism |-> <<>>, noProgress |-> FALSE,
     diagnostics |-> FALSE,
     timeoutFlag |-> 0, timeoutChanged |-> FALSE,
     parallelFlag |-> 0, parallelChanged |-> FALSE]

\* the invocation-local state before main starts
Fresh ==
    /\ stage = "Uninitialized"
    /\ paths = zeroPaths
    /\ cfg = zeroConfig
    /\ logSettings = zeroLogSettings
    /\ rtx = <<>>
    /\ err = ""
    /\ handle = "none"
    /\ closeCalls = 0
    /\ stderr = <<>>
    /\ out = <<>>

Init ==
    /\ env \in Envs
    /\ tty = FALSE
    /\ \E o \in Overrides, q \in BOOLEAN, both \in BOOLEAN :
          /\ flags = [defaultFlags EXCEPT !.configPath = o, !.quiet = q,
                                          !.json = both, !.yaml = both]
          /\ fs \in DisksFor(env, o)
    /\ command = NoCommand
    /\ pc = "idle"
    /\ Fresh
    /\ hist = [fs0 |-> fs, prev |-> <<>>, cur |-> <<>>, dirty |-> FALSE, same |-> FALSE]
    /\ workers = <<>>

\* ------------------------------------------------------------------------
\* One invocation: main -> Execute -> PersistentPreRunE -> handler

MaxLogWrites == 2

LogWrites(f) == {p \in DOMAIN f : Len(f[p].log) > MaxLogWrites}

\* the shell starts the program with a subcommand, with or without --dry-run
Start(c, dry) ==
    /\ pc \in {"idle", "exited"}
    /\ LogWrites(fs) = {}
    /\ pc' = "prerun"
    /\ command' = c
    /\ flags' = [flags EXCEPT !.dryRun = dry, !.timeout = <<>>, !.parallelism = <<>>]
    /\ stage' = "Uninitialized"
    /\ paths' = zeroPaths
    /\ cfg' = zeroConfig
    /\ logSettings' = zeroLogSettings
    /\ rtx' = <<>>
    /\ err' = ""
    /\ handle' = "none"
    /\ closeCalls' = 0
    /\ stderr' = <<>>
    /\ out' = <<>>
    /\ hist' = [fs0 |-> fs, prev |-> hist.cur, cur |-> <<>>,
                dirty |-> FALSE, same |-> ~hist.dirty]
    /\ UNCHANGED <<env, tty, fs, workers>>

PreRunValidate_FormatsUnchecked ==
    /\ pc = "prerun"
    /\ IF ~ValidateColor(flags)
       THEN /\ err' = "invalid --color value"
            /\ pc' = "failed"
       ELSE /\ err' = ""
            /\ pc' = "bootstrap"
    /\ flags' = [flags EXCEPT
                    !.timeout = IF flags.timeoutChanged THEN <<flags.timeoutFlag>> ELSE <<>>,
                    !.parallelism = IF flags.parallelChanged THEN <<flags.parallelFlag>>
                                    ELSE <<>>]
    /\ UNCHANGED <<env, tty, fs, command, stage, paths, cfg, logSettings, rtx,
                   handle, closeCalls, stderr, out, hist, workers>>

\* PersistentPreRunE up to the call of NewRuntimeContext
PreRunValidate ==
    /\ pc = "prerun"
    /\ IF flags.json /\ flags.yaml
       THEN /\ err' = "--json and --yaml cannot be used together"
            /\ pc' = "failed"
       ELSE IF ~ValidateColor(flags)
       THEN /\ err' = "invalid --color value"
            /\ pc' = "failed"
       ELSE /\ err' = ""
            /\ pc' = "bootstrap"
    /\ flags' = [flags EXCEPT
                    !.timeout = IF flags.timeoutChanged THEN <<flags.timeoutFlag>> ELSE <<>>,
                    !.parallelism = IF flags.parallelChanged THEN <<flags.parallelFlag>>
                                    ELSE <<>>]
    /\ UNCHANGED <<env, tty, fs, command, stage, paths, cfg, logSettings, rtx,
                   handle, closeCalls, stderr, out, hist, workers>>

\* NewRuntimeContext: paths, err := DiscoverPaths(appName, flags.ConfigPath)
DiscoverPathsStage ==
    /\ pc = "bootstrap" /\ stage = "Uninitialized"
    /\ \E r \in {DiscoverPaths(env, fs, flags.configPath)} :
           IF r.ok
           THEN /\ paths' = r.paths
                /\ stage' = "PathsResolved"
                /\ UNCHANGED <<pc, err>>
           ELSE /\ err' = "determine home directory"
                /\ pc' = "failed"
                /\ UNCHANGED <<paths, stage>>
    /\ UNCHANGED <<env, tty, fs, flags, command, cfg, logSettings, rtx, handle,
                   closeCalls, stderr, out, hist, workers>>

\* NewRuntimeContext going on to the next stage whatever LoadOrInitConfig returned
LoadOrInitConfigStage_KeepsGoing ==
    /\ pc = "bootstrap" /\ stage = "PathsResolved"
    /\ \E r \in {LoadOrInitConfig(env, fs, paths.configFile, flags.dryRun)} :
           /\ fs' = r.fs
           /\ cfg' = r.cfg
           /\ err' = r.err
    /\ stage' = "ConfigLoaded"
    /\ UNCHANGED <<env, tty, flags, command, pc, paths, logSettings, rtx, handle,
                   closeCalls, stderr, out, hist, workers>>

\* NewRuntimeContext: cfg, err := LoadOrInitConfig(paths, flags)
LoadOrInitConfigStage ==
    /\ pc = "bootstrap" /\ stage = "PathsResolved"
    /\ \E r \in {LoadOrInitConfig(env, fs, paths.configFile, flags.dryRun)} :
           /\ fs' = r.fs
           /\ IF r.err = ""
              THEN /\ cfg' = r.cfg
                   /\ stage' = "ConfigLoaded"
                   /\ UNCHANGED <<pc, err>>
              ELSE /\ err' = r.err
                   /\ pc' = "failed"
                   /\ UNCHANGED <<cfg, stage>>
    /\ UNCHANGED <<env, tty, flags, command, paths, logSettings, rtx, handle,
                   closeCalls, stderr, out, hist, workers>>

\* NewRuntimeContext: effPaths, err := ApplyPathOverrides(paths, cfg)
ApplyPathOverridesStage ==
    /\ pc = "bootstrap" /\ stage = "ConfigLoaded"
    /\ \E r \in {ApplyPathOverrides(env, paths, cfg)} :
           IF r.ok
           THEN /\ paths' = r.paths
                /\ stage' = "PathsOverridden"
                /\ UNCHANGED <<pc, err>>
           ELSE /\ err' = "expand path override"
                /\ pc' = "failed"
                /\ UNCHANGED <<paths, stage>>
    /\ UNCHANGED <<env, tty, fs, flags, command, cfg, logSettings, rtx, handle,
                   closeCalls, stderr, out, hist, workers>>

\* NewRuntimeContext: err := EnsureDirectories(effPaths, flags)
EnsureDirectoriesStage ==
    /\ pc = "bootstrap" /\ stage = "PathsOverridden"
    /\ \E r \in {EnsureDirectories(fs, paths, flags.dryRun)} :
           /\ fs' = r.fs
           /\ IF r.err = ""
              THEN /\ stage' = "DirectoriesEnsured"
                   /\ UNCHANGED <<pc, err, out>>
              ELSE /\ err' = r.err
                   /\ out' = <<r.dir>>    \* "creating directory %s: %w"
                   /\ pc' = "failed"
                   /\ UNCHANGED stage
    /\ UNCHANGED <<env, tty, flags, command, paths, cfg, logSettings, rtx, handle,
                   closeCalls, stderr, hist, workers>>

\* the logger stage undoing what the run put on the disk when it fails
ResolveLogSettingsStage_RollsBack ==
    /\ pc = "bootstrap" /\ stage = "DirectoriesEnsured"
    /\ \E r \in {ResolveLogSettings(fs, flags, cfg, tty)} :
           /\ fs' = IF r.err = "" THEN r.fs ELSE hist.fs0
           /\ IF r.err = ""
              THEN /\ logSettings' = r.settings
                   /\ handle' = IF r.settings.fileHandle # <<>> THEN "open" ELSE "none"
                   /\ stage' = "LoggingConfigured"
                   /\ UNCHANGED <<pc, err>>
              ELSE /\ err' = r.err
                   /\ pc' = "failed"
                   /\ UNCHANGED <<logSettings, handle, stage>>
    /\ UNCHANGED <<env, tty, flags, command, paths, cfg, rtx, closeCalls, stderr,
                   out, hist, workers>>

\* NewRuntimeContext: logSettings, err := ResolveLogSettings(flags, cfg)
ResolveLogSettingsStage ==
    /\ pc = "bootstrap" /\ stage = "DirectoriesEnsured"
    /\ \E r \in {ResolveLogSettings(fs, flags, cfg, tty)} :
           /\ fs' = r.fs
           /\ IF r.err = ""
              THEN /\ logSettings' = r.settings
                   /\ handle' = IF r.settings.fileHandle # <<>> THEN "open" ELSE "none"
                   /\ stage' = "LoggingConfigured"
                   /\ UNCHANGED <<pc, err>>
              ELSE /\ err' = r.err
                   /\ pc' = "failed"
                   /\ UNCHANGED <<logSettings, handle, stage>>
    /\ UNCHANGED <<env, tty, flags, command, paths, cfg, rtx, closeCalls, stderr,
                   out, hist, workers>>

\* NewRuntimeContext: ConfigureLogger, the RuntimeContext value, the first
\* debug line, return rtx; PersistentPreRunE stores it in the command
AssembleStage ==
    /\ pc = "bootstrap" /\ stage = "LoggingConfigured"
    /\ \E ctx \in {[Common |-> flags, Paths |-> paths, Config |-> cfg,
                    Logger |-> ConfigureLogger(logSettings), LogSettings |-> logSettings]} :
       \E w \in {Log(ctx.Logger, LevelDebug, "resolved paths", handle = "open", stderr, fs)} :
           /\ rtx' = <<ctx>>
           /\ stderr' = w.out
           /\ fs' = w.fs
    /\ stage' = "Ready"
    /\ pc' = "handler"
    /\ hist' = [hist EXCEPT !.cur = <<[dryRun |-> flags.dryRun, paths |-> paths, cfg |-> cfg]>>,
                            !.dirty = FALSE]
    /\ UNCHANGED <<env, tty, flags, command, paths, cfg, logSettings, err, handle,
                   closeCalls, out, workers>>

\* ------------------------------------------------------------------------
\* The command handlers (flags.go); ctx is the context PersistentPreRunE stored

Ctx == rtx[1]

HandlerDone(e, msg, f, wrote) ==
    /\ err' = e
    /\ \E w \in {IF msg = "" THEN [out |-> stderr, fs |-> f, seq |-> <<>>]
                 ELSE Log(Ctx.Logger, LevelInfo, msg, handle = "open", stderr, f)} :
           /\ stderr' = w.out
           /\ fs' = w.fs
    /\ hist' = [hist EXCEPT !.dirty = @ \/ wrote]
    /\ pc' = "returned"
    /\ UNCHANGED <<env, tty, flags, command, stage, paths, cfg, logSettings,
                   handle, closeCalls, workers>>


HandleRun ==
    /\ pc = "handler" /\ command.name = "run"
    /\ \E r \in {RunResult(Ctx, command)} :
           /\ out' = <<r.report>>
           /\ rtx' = <<[Ctx EXCEPT !.Config = r.config]>>
    /\ HandlerDone("", "running task", fs, FALSE)

HandleInit ==
    /\ pc = "handler" /\ command.name = "init"
    /\ out' = out
    /\ rtx' = rtx
    /\ \E st \in {Stat(fs, Ctx.Paths.configFile)} :
       \E wr \in {IF Ctx.Common.dryRun \/ st \notin {"file", "dir", "ENOENT"}
                     \/ (st \in {"file", "dir"} /\ ~(command.force \/ Ctx.Common.assumeYes))
                  THEN [err |-> "", fs |-> fs]
                  ELSE writeDefaultConfig(fs, Ctx.Paths.configFile)} :
       \E res \in {IF st \in {"file", "dir"} /\ ~(command.force \/ Ctx.Common.assumeYes)
                   THEN [e |-> "config already exists", msg |-> "", wrote |-> FALSE]
                   ELSE IF st \notin {"file", "dir"} /\ ~IsNotExist(st)
                   THEN [e |-> st, msg |-> "", wrote |-> FALSE]
                   ELSE IF Ctx.Common.dryRun
                   THEN [e |-> "", msg |-> "dry-run: would write default config",
                         wrote |-> FALSE]
                   ELSE IF wr.err # ""
                   THEN [e |-> wr.err, msg |-> "", wrote |-> TRUE]
                   ELSE [e |-> "", msg |-> "wrote default config", wrote |-> TRUE]} :
           HandlerDone(res.e, res.msg, wr.fs, res.wrote)

HandleConfigShow ==
    /\ pc = "handler" /\ command.name = "config show"
    /\ out' = <<Ctx.Config>>
    /\ rtx' = rtx
    /\ HandlerDone("", "", fs, FALSE)

HandleConfigPath ==
    /\ pc = "handler" /\ command.name = "config path"
    /\ out' = <<Ctx.Paths.configFile>>
    /\ rtx' = rtx
    /\ HandlerDone("", "", fs, FALSE)

HandleConfigReset ==
    /\ pc = "handler" /\ command.name = "config reset"
    /\ out' = out
    /\ rtx' = rtx
    /\ \E wr \in {IF Ctx.Common.dryRun THEN [err |-> "", fs |-> fs]
                  ELSE writeDefaultConfig(fs, Ctx.Paths.configFile)} :
       \E res \in {IF Ctx.Common.dryRun
                   THEN [e |-> "", msg |-> "dry-run: would reset config", wrote |-> FALSE]
                   ELSE IF wr.err # ""
                   THEN [e |-> wr.err, msg |-> "", wrote |-> TRUE]
                   ELSE [e |-> "", msg |-> "reset config", wrote |-> TRUE]} :
           HandlerDone(res.e, res.msg, wr.fs, res.wrote)

\* main: Execute has returned; os.Exit(1) on an error, a plain return
\* otherwise.  The process's memory is gone; what stays is the disk, the exit
\* status and, for the record, how far the bootstrap got and whether the
\* context was closed.
MainExit ==
    /\ pc \in {"returned", "failed"}
    /\ pc' = "exited"
    /\ command' = NoCommand
    /\ cfg' = zeroConfig
    /\ logSettings' = zeroLogSettings
    /\ rtx' = <<>>
    /\ stderr' = <<>>
    /\ out' = <<>>
    /\ hist' = [hist EXCEPT !.fs0 = fs, !.prev = <<>>, !.same = FALSE]
    /\ UNCHANGED <<env, tty, fs, flags, stage, paths, err, handle, closeCalls, workers>>

\* between two invocations the user rewrites the config file
UserEdit(t) ==
    /\ pc = "exited"
    /\ paths.configFile \in DOMAIN fs
    /\ fs[paths.configFile].kind = "file"
    /\ fs[paths.configFile].text # t
    /\ fs' = [fs EXCEPT ![paths.configFile] = FileEntry("rw", t)]
    /\ hist' = [hist EXCEPT !.dirty = TRUE]
    /\ pc' = "idle"
    /\ UNCHANGED <<env, tty, flags, command, stage, paths, cfg, logSettings, rtx,
                   err, handle, closeCalls, stderr, out, workers>>

Next ==
    \/ \E c \in Commands, dry \in BOOLEAN : Start(c, dry)
    \/ PreRunValidate
    \/ DiscoverPathsStage
    \/ LoadOrInitConfigStage
    \/ ApplyPathOverridesStage
    \/ EnsureDirectoriesStage
    \/ ResolveLogSettingsStage
    \/ AssembleStage
    \/ HandleRun
    \/ HandleInit
    \/ HandleConfigShow
    \/ HandleConfigPath
    \/ HandleConfigReset
    \/ MainExit
    \/ \E t \in UserTexts : UserEdit(t)

Spec == Init /\ [][Next]_vars

\* ------------------------------------------------------------------------
\* Properties of the invocation

StageAfter(st) ==
    CASE st = "Uninitialized" -> "PathsResolved"
      [] st = "PathsResolved" -> "ConfigLoaded"
      [] st = "ConfigLoaded" -> "PathsOverridden"
      [] st = "PathsOverridden" -> "DirectoriesEnsured"
      [] st = "DirectoriesEnsured" -> "LoggingConfigured"
      [] st = "LoggingConfigured" -> "Ready"
      [] OTHER -> "Closed"

\* C1: inside NewRuntimeContext the assembler's state only ever moves to the
\* next state of Uninitialized, PathsResolved, ConfigLoaded, PathsOverridden,
\* DirectoriesEnsured, LoggingConfigured, Ready, and only while no stage has
\* failed; a failing stage leaves the state where it was, gives the caller an
\* error and no context, and after it nothing more touches the disk, the
\* paths or the log handle; the caller holds a context only in state Ready.
C1_StagesInOrder ==
    /\ [][/\ (stage' # stage /\ pc' # "prerun") =>
                /\ pc = "bootstrap"
                /\ err = "" /\ err' = ""
                /\ stage' = StageAfter(stage)
          /\ (pc = "bootstrap" /\ pc' = "failed") =>
                /\ stage' = stage
                /\ err' # ""
                /\ rtx' = <<>>
          /\ pc = "failed" =>
                /\ stage' = stage
                /\ fs' = fs /\ paths' = paths /\ handle' = handle
                /\ rtx' = <<>>]_vars
    /\ [](rtx # <<>> => stage = "Ready" /\ pc \in {"handler", "returned"})

C1_Witness == stage = "Ready" /\ rtx # <<>> /\ pc = "handler" /\ ~flags.dryRun

\* C6: while an invocation with --dry-run runs, from its start through the
\* bootstrap and the handler (init and config reset included) to its return,
\* the disk equals the disk the invocation started with.
C6_DryRunKeepsDisk ==
    (flags.dryRun /\ pc \in {"prerun", "bootstrap", "handler", "returned", "failed"})
        => fs = hist.fs0

C6_Witness ==
    /\ flags.dryRun /\ pc = "returned" /\ err = ""
    /\ command.name \in {"init", "config reset"}
    /\ paths.configFile \notin DOMAIN fs
    /\ paths.dataDir \notin DOMAIN fs

\* the disk of a dry run, with the generated default file put where the
\* config file is missing
WithConfigFile(f, configFile) ==
    IF configFile \in DOMAIN f THEN f ELSE writeDefaultConfig(f, configFile).fs

\* C7: the paths and the configuration of a context built with --dry-run
\* equal those NewRuntimeContext returns without --dry-run, in the same
\* environment and with the same flags, on a disk that has the same config
\* file (the generated default file where the dry run found none), whenever
\* that call returns a context.
C7_DryRunSameValues ==
    (flags.dryRun /\ pc = "handler" /\ stage = "Ready") =>
        LET n == NewRuntimeContext(env, WithConfigFile(hist.fs0, paths.configFile),
                                   [flags EXCEPT !.dryRun = FALSE], tty)
        IN  n.ok => (n.paths = Ctx.Paths /\ n.cfg = Ctx.Config)

C7_Witness ==
    /\ flags.dryRun /\ pc = "handler" /\ stage = "Ready"
    /\ paths.configFile \notin DOMAIN fs
    /\ EnvKey(KLevel) \in DOMAIN env
    /\ NewRuntimeContext(env, WithConfigFile(hist.fs0, paths.configFile),
                         [flags EXCEPT !.dryRun = FALSE], tty).ok

\* C8: no step of the bootstrap changes a config file that exists; and a
\* bootstrap that follows one with the same flags, with no edit of the config
\* file in between, builds a context with the same paths and configuration.
C8_BootstrapIdempotent ==
    /\ [][(pc = "bootstrap" /\ paths.configFile \in DOMAIN fs) =>
             (paths.configFile \in DOMAIN fs' /\ fs'[paths.configFile] = fs[paths.configFile])]_vars
    /\ []((pc = "handler" /\ stage = "Ready" /\ hist.prev # <<>> /\ hist.same
             /\ hist.prev[1].dryRun = flags.dryRun) =>
          (Ctx.Paths = hist.prev[1].paths /\ Ctx.Config = hist.prev[1].cfg))

C8_Witness ==
    /\ pc = "handler" /\ stage = "Ready" /\ hist.prev # <<>> /\ hist.same
    /\ ~hist.prev[1].dryRun /\ ~flags.dryRun
    /\ fs[paths.configFile].text # defaultConfigHeader(paths.configFile) \o defaultConfigBody

\* C10: an invocation whose context reached Ready has called
\* RuntimeContext.Close by the time the process has ended its work.
C10_ClosedAfterHandler ==
    (pc = "exited" /\ stage = "Ready") => closeCalls >= 1

\* C13: with --json and --yaml both set the invocation fails with the
\* conflicting-formats error before NewRuntimeContext starts: no stage runs,
\* no context exists, no handler runs and the disk is as it was.
C13_ConflictingFormatsFailFirst ==
    (flags.json /\ flags.yaml) =>
        /\ pc \in {"idle", "prerun", "failed", "exited"}
        /\ stage = "Uninitialized" /\ paths = zeroPaths /\ rtx = <<>> /\ handle = "none"
        /\ fs = hist.fs0
        /\ pc \in {"failed", "exited"} => err = "--json and --yaml cannot be used together"

C13_Witness ==
    /\ flags.json /\ flags.yaml /\ ~flags.dryRun
    /\ command.name = "init"
    /\ pc = "failed"
    /\ err = "--json and --yaml cannot be used together"
    /\ fs = hist.fs0

\* C26: a dry run that finds no config file goes on with the defaults (and
\* what the environment sets) and an untouched disk; a config file that
\* exists and is malformed or unreadable makes the bootstrap fail, dry run or
\* not, with the same result, and no context is produced.
C26_DryRunToleratesOnlyAbsence ==
    [][(pc = "bootstrap" /\ stage = "PathsResolved") =>
          LET cf == paths.configFile
              st == Stat(fs, cf)
              broken == st = "file" /\ (fs[cf].perm # "rw" \/ ~ParseToml(fs[cf].text).ok)
              level == ViperGetEnv(env, KLevel)
          IN  /\ (flags.dryRun /\ IsNotExist(st)) =>
                    /\ stage' = "ConfigLoaded" /\ pc' = "bootstrap" /\ err' = ""
                    /\ fs' = fs
                    /\ cfg' = [defaultConfig EXCEPT
                                  !.logging.level = IF level.ok THEN level.val ELSE @]
              /\ broken =>
                    /\ pc' = "failed" /\ err' = "read config" /\ rtx' = <<>>
                    /\ fs' = fs
                    /\ LoadOrInitConfig(env, fs, cf, TRUE) = LoadOrInitConfig(env, fs, cf, FALSE)]_vars

C26_Witness ==
    /\ pc = "failed" /\ err = "read config" /\ flags.dryRun /\ rtx = <<>>
    /\ Stat(fs, paths.configFile) = "file"
    /\ fs[paths.configFile].text = MalformedText
    /\ fs[paths.configFile].perm = "rw"

\* ------------------------------------------------------------------------
\* The same invocations from other starting points: XDG variables with and
\* without a home directory, relative paths, a file in the way of a
\* directory, a log file that cannot be opened, a config that sets the run
\* parameters, --timeout and --parallel given or not.

BootInit ==
    LET XdgNoHome == [EnvXdg EXCEPT ![NHOME] = <<>>]
        Blocker == <<"/", "home", "/", "u", "/", "blocker">>
        StateBlocked == EnvHome @@ (NXDG_STATE_HOME :> Blocker \o <<"/", "state">>)
        DataOnly == EnvHome @@ (NXDG_DATA_HOME :> <<"/", "data">>)
        DataRelative == EnvHome @@ (NXDG_DATA_HOME :> <<"rel">>)
        Tuned == << Line(KProfile, <<"d","e","v">>, TRUE),
                    Line(KParallelism, <<"3">>, TRUE),
                    Line(KTimeout, <<"3","0">>, TRUE) >>
        Moved == << Line(KDataDir, <<"rel", "/", "data">>, TRUE),
                    Line(KStateDir, <<"~", "/", "st">>, TRUE) >>
        NoLog == << Line(KFile, <<"/", "nodir", "/", "app.log">>, TRUE) >>
        Given(t, n) == [defaultFlags EXCEPT !.timeoutChanged = TRUE, !.timeoutFlag = t,
                                            !.parallelChanged = TRUE, !.parallelFlag = n]
        With(e, text) ==
            LET At(cf) == Put(MkdirAll(BaseDisk, Dir(cf)).fs, cf, FileEntry("rw", text))
            IN  At(DiscoverPaths(e, BaseDisk, <<>>).paths.configFile)
        Case(e, f, fl) == [env |-> e, fs |-> f, flags |-> fl]
    IN  /\ \E c \in { Case(EnvHome, BaseDisk, defaultFlags),
                      Case(EnvHome, BaseDisk, Given(5, 2)),
                      Case(EnvHome, With(EnvHome, Tuned), defaultFlags),
                      Case(EnvHome, With(EnvHome, Tuned), Given(5, 2)),
                      Case(EnvHome, With(EnvHome, Tuned), Given(0, 0)),
                      Case(EnvHome, With(EnvHome, Tuned),
                           [defaultFlags EXCEPT !.timeoutFlag = 5, !.parallelFlag = 2]),
                      Case(EnvHome, With(EnvHome, Moved), defaultFlags),
                      Case(EnvHome, With(EnvHome, NoLog), defaultFlags),
                      Case(EnvHome, BaseDisk, [defaultFlags EXCEPT !.configPath = <<"conf">>]),
                      Case(EnvXdg, BaseDisk, defaultFlags),
                      Case(EnvNone, BaseDisk, defaultFlags),
                      Case(XdgNoHome, BaseDisk, defaultFlags),
                      Case(XdgNoHome, With(XdgNoHome, Moved), defaultFlags),
                      Case(DataOnly, BaseDisk, defaultFlags),
                      Case(DataRelative, BaseDisk, defaultFlags),
                      Case(StateBlocked, Put(BaseDisk, Blocker, FileEntry("rw", <<>>)),
                           defaultFlags) } :
              /\ env = c.env
              /\ fs = c.fs
              /\ flags = c.flags
        /\ tty = FALSE
        /\ command = NoCommand
        /\ pc = "idle"
        /\ Fresh
        /\ hist = [fs0 |-> fs, prev |-> <<>>, cur |-> <<>>, dirty |-> FALSE, same |-> FALSE]
        /\ workers = <<>>

SpecBoot == BootInit /\ [][Next]_vars

\* C21: without override, what DiscoverPaths returns follows the XDG
\* variables that are set: the config file is $XDG_CONFIG_HOME/go-cli/config.toml,
\* the data directory $XDG_DATA_HOME/go-cli, the state directory
\* $XDG_STATE_HOME/go-cli; with the variable unset the data and state
\* directories are ~/.local/share/go-cli and ~/.local/state/go-cli; and
\* DiscoverPaths fails only when a directory needs the home directory and
\* there is none.
C21_DirectoriesFollowXdg ==
    LET xc == Getenv(env, NXDG_CONFIG_HOME)
        xd == Getenv(env, NXDG_DATA_HOME)
        xs == Getenv(env, NXDG_STATE_HOME)
        home == Getenv(env, NHOME)
    IN  /\ (stage \in {"PathsResolved", "ConfigLoaded"} /\ flags.configPath = <<>>) =>
              /\ xc # <<>> => paths.configFile = Clean(xc \o <<"/", "go-cli", "/", "config.toml">>)
              /\ paths.dataDir =
                    IF xd # <<>> THEN Clean(xd \o <<"/", "go-cli">>)
                    ELSE home \o <<"/", ".local", "/", "share", "/", "go-cli">>
              /\ paths.stateDir =
                    IF xs # <<>> THEN Clean(xs \o <<"/", "go-cli">>)
                    ELSE home \o <<"/", ".local", "/", "state", "/", "go-cli">>
        /\ (pc = "failed" /\ err = "determine home directory") =>
              /\ home = <<>>
              /\ (xc = <<>> /\ flags.configPath = <<>>) \/ xd = <<>> \/ xs = <<>>
                    \/ (flags.configPath # <<>> /\ flags.configPath[1] = "~")

C21_Witness ==
    /\ stage = "PathsResolved" /\ flags.configPath = <<>>
    /\ Getenv(env, NXDG_DATA_HOME) = <<"/", "data">>
    /\ Getenv(env, NXDG_STATE_HOME) = <<>>
    /\ paths.dataDir = <<"/", "data", "/", "go-cli">>
    /\ paths.stateDir = <<"/", "home", "/", "u", "/", ".local", "/", "state", "/", "go-cli">>

\* C22: in every Ready RuntimeContext the config file, the data directory
\* and the state directory are absolute, cleaned paths.
C22_ReadyPathsAbsolute ==
    (stage = "Ready" /\ rtx # <<>>) =>
        \A p \in {Ctx.Paths.configFile, Ctx.Paths.dataDir, Ctx.Paths.stateDir} :
            IsAbs(p) /\ Clean(p) = p

\* C23: the step from ConfigLoaded replaces the data (state) directory by
\* the expanded paths.data_dir (paths.state_dir) exactly when that value is
\* non-empty and keeps the resolved one otherwise; it leaves the config file
\* path and the disk alone; when an expansion fails the caller's paths are
\* what they were.
C23_ApplyPathOverridesFrame ==
    [][(pc = "bootstrap" /\ stage = "ConfigLoaded") =>
          LET d == expandPath(env, cfg.paths.data_dir)
              s == expandPath(env, cfg.paths.state_dir)
          IN  /\ fs' = fs
              /\ cfg' = cfg
              /\ IF (cfg.paths.data_dir # <<>> /\ ~d.ok) \/ (cfg.paths.state_dir # <<>> /\ ~s.ok)
                 THEN pc' = "failed" /\ paths' = paths /\ stage' = stage
                 ELSE /\ stage' = "PathsOverridden"
                      /\ paths'.configFile = paths.configFile
                      /\ paths'.dataDir = IF cfg.paths.data_dir # <<>> THEN d.path
                                          ELSE paths.dataDir
                      /\ paths'.stateDir = IF cfg.paths.state_dir # <<>> THEN s.path
                                           ELSE paths.stateDir]_vars

C23_Witness ==
    /\ stage = "PathsOverridden"
    /\ cfg.paths.data_dir = <<"$HOME", "/", "appdata">>
    /\ cfg.paths.state_dir = <<>>
    /\ paths.dataDir = <<"/", "home", "/", "u", "/", "appdata">>
    /\ paths.stateDir = <<"/", "home", "/", "u", "/", ".local", "/", "state", "/", "go-cli">>
    /\ paths.configFile = <<"/", "home", "/", "u", "/", ".config", "/", "go-cli", "/", "config.toml">>

\* C24: from Ready on, no handler changes the context's paths or its
\* config, the integers behind the config's parallelism and timeout
\* pointers included.
C24_ReadyContextImmutable ==
    [][/\ pc = "handler" => rtx' # <<>>
       /\ (rtx # <<>> /\ rtx' # <<>>) =>
             /\ rtx'[1].Paths = rtx[1].Paths
             /\ rtx'[1].Config = rtx[1].Config]_vars

C24_Witness ==
    /\ pc = "returned" /\ command.name = "run" /\ err = ""
    /\ Ctx.Common.timeout = <<5>> /\ Ctx.Common.parallelism = <<2>>
    /\ Ctx.Config.runtime.timeout = <<30>> /\ Ctx.Config.runtime.parallelism = <<3>>
    /\ out = <<[task |-> "default", profile |-> <<"d","e","v">>, parallelism |-> 2, timeout |-> 5]>>

\* C25: without dry-run the step from PathsOverridden either leaves the
\* data and the state directory and all their parents as directories,
\* changing nothing that existed, or fails with an error naming the directory
\* that could not be created, and then there is no context, the logger stage
\* has not run and no log file was opened; an empty entry is skipped.
C25_EnsureDirectories ==
    [][(pc = "bootstrap" /\ stage = "PathsOverridden" /\ ~flags.dryRun) =>
          LET dirs == {paths.dataDir, paths.stateDir} \ {<<>>}
              needed == UNION {Ancestors(d) \cup {d} : d \in dirs}
              logFile == expandPath(env, cfg.logging.file).path
          IN  /\ \A q \in DOMAIN fs : q \in DOMAIN fs' /\ fs'[q] = fs[q]
              /\ \A q \in DOMAIN fs' \ DOMAIN fs : q \in needed /\ fs'[q].kind = "dir"
              /\ IF stage' = "DirectoriesEnsured"
                 THEN /\ pc' = "bootstrap" /\ err' = ""
                      /\ \A q \in needed : q \in DOMAIN fs' /\ fs'[q].kind = "dir"
                 ELSE /\ pc' = "failed" /\ stage' = "PathsOverridden"
                      /\ err' = "creating directory"
                      /\ \E d \in dirs : out' = <<d>> /\ Stat(fs', d) # "dir"
                      /\ rtx' = <<>> /\ handle' = "none"
                      /\ logSettings' = zeroLogSettings
                      /\ (logFile \in DOMAIN fs') = (logFile \in DOMAIN hist.fs0)
              /\ EnsureDirectories(fs, [paths EXCEPT !.dataDir = <<>>], FALSE)
                    = [err |-> IF MkdirAll(fs, paths.stateDir).err # ""
                               THEN "creating directory" ELSE "",
                       fs |-> MkdirAll(fs, paths.stateDir).fs,
                       dir |-> IF MkdirAll(fs, paths.stateDir).err # ""
                               THEN paths.stateDir ELSE <<>>]
              /\ EnsureDirectories(fs, zeroPaths, FALSE) = [err |-> "", fs |-> fs, dir |-> <<>>]]_vars

C25_Witness ==
    /\ pc = "failed" /\ err = "creating directory"
    /\ out = <<<<"/", "home", "/", "u", "/", "blocker", "/", "state", "/", "go-cli">>>>
    /\ cfg.logging.file # <<>>
    /\ paths.dataDir \notin DOMAIN hist.fs0
    /\ Stat(fs, paths.dataDir) = "dir"
    /\ rtx = <<>> /\ handle = "none"

\* C28: init without --force, --yes and --dry-run, started where no config
\* file exists, returns no error and leaves the generated config file.
C28_InitOnFreshSystemSucceeds ==
    (pc = "returned" /\ command.name = "init" /\ ~command.force
        /\ ~flags.assumeYes /\ ~flags.dryRun
        /\ Stat(hist.fs0, paths.configFile) = "ENOENT") =>
        /\ err = ""
        /\ Stat(fs, paths.configFile) = "file"
        /\ fs[paths.configFile].text = defaultConfigHeader(paths.configFile) \o defaultConfigBody

\* C29: what run reports: the profile is --profile when given, else the
\* config's; the parallelism is --parallel when that flag was given, else the
\* config's when set, else the CPU count, which is at least 1; the timeout is
\* --timeout when that flag was given, else the config's.
C29_RunPrecedence ==
    (pc = "returned" /\ command.name = "run") =>
        out = <<[task |-> command.task,
                    profile |-> IF command.profile # <<>> THEN command.profile
                                ELSE cfg.profile,
                    parallelism |-> IF flags.parallelChanged THEN flags.parallelFlag
                                    ELSE IF cfg.runtime.parallelism # <<>>
                                    THEN cfg.runtime.parallelism[1]
                                    ELSE IF NumCPU >= 1 THEN NumCPU ELSE 1,
                    timeout |-> IF flags.timeoutChanged THEN flags.timeoutFlag
                                ELSE cfg.runtime.timeout[1]]>>

C29_Witness ==
    /\ pc = "returned" /\ command.name = "run" /\ command.profile = <<"q","a">>
    /\ flags.timeoutFlag = 5 /\ ~flags.timeoutChanged
    /\ flags.parallelFlag = 2 /\ ~flags.parallelChanged
    /\ cfg.profile = <<"d","e","v">>
    /\ out = <<[task |-> "build", profile |-> <<"q","a">>, parallelism |-> 3, timeout |-> 30]>>

\* C30: when the bootstrap fails there is no context and no open file
\* handle, and the failure is never later than the logger stage; when it
\* fails after LoadOrInitConfig in a run that is not a dry run, nothing that
\* was on the disk is gone, the config file is there (the generated one if
\* there was none), the directories the run managed to create are there.
C30_FailedBootstrapNotRolledBack ==
    /\ pc = "failed" =>
          /\ rtx = <<>> /\ handle = "none"
          /\ stage \notin {"LoggingConfigured", "Ready"}
    /\ (pc = "failed" /\ ~flags.dryRun
          /\ stage \in {"ConfigLoaded", "PathsOverridden", "DirectoriesEnsured"}) =>
          /\ \A q \in DOMAIN hist.fs0 : q \in DOMAIN fs /\ fs[q].kind = hist.fs0[q].kind
          /\ Stat(fs, paths.configFile) \in {"file", "dir"}
          /\ Stat(hist.fs0, paths.configFile) = "ENOENT" =>
                fs[paths.configFile].text =
                    defaultConfigHeader(paths.configFile) \o defaultConfigBody
          /\ stage = "ConfigLoaded" => err = "expand path override"
          /\ stage = "PathsOverridden" =>
                /\ err = "creating directory"
                /\ out = <<paths.stateDir>> => Stat(fs, paths.dataDir) = "dir"
          /\ stage = "DirectoriesEnsured" =>
                /\ Stat(fs, paths.dataDir) = "dir"
                /\ Stat(fs, paths.stateDir) = "dir"

C30_Witness ==
    /\ pc = "failed" /\ ~flags.dryRun /\ stage = "PathsOverridden"
    /\ rtx = <<>> /\ handle = "none"
    /\ Stat(hist.fs0, paths.configFile) = "ENOENT"
    /\ fs[paths.configFile].text = defaultConfigHeader(paths.configFile) \o defaultConfigBody
    /\ paths.dataDir \notin DOMAIN hist.fs0
    /\ Stat(fs, paths.dataDir) = "dir"
    /\ out = <<paths.stateDir>>

\* ------------------------------------------------------------------------
\* LoadOrInitConfig on its own: every layering of file and environment

\* how many fields a layer may set, or leave out, at once
MaxPartial == 1

LayerSets == {S \in SUBSET Keys : Cardinality(S) <= MaxPartial
                                   \/ Cardinality(S) >= Cardinality(Keys) - MaxPartial}

FileVal(k) ==
    CASE k = KProfile -> <<"p","r","o","d">>
      [] k = KLevel -> <<"w","a","r","n">>
      [] k = KFile -> <<"/", "f.log">>
      [] k = KParallelism -> <<"2">>
      [] k = KTimeout -> <<"3","0">>
      [] k = KFailFast -> SFalse
      [] k = KDataDir -> <<"/", "fdata">>
      [] k = KStateDir -> <<"/", "fstate">>

EnvVal(k) ==
    CASE k = KProfile -> <<"d","e","v">>
      [] k = KLevel -> <<"d","e","b","u","g">>
      [] k = KFile -> <<"/", "e.log">>
      [] k = KParallelism -> <<"3">>
      [] k = KTimeout -> <<"4","5">>
      [] k = KFailFast -> STrue
      [] k = KDataDir -> <<"/", "edata">>
      [] k = KStateDir -> <<"/", "estate">>

\* the name the README gives for the variable of a key:
\* <PREFIX>__<SEGMENT>__<SEGMENT>
DocEnvKey(key) == EnvPrefix \o <<"_","_">> \o ReplaceDots(ToUpper(key))

RECURSIVE FileText(_)
FileText(S) ==
    IF S = {} THEN <<>>
    ELSE LET k == CHOOSE x \in S : TRUE
         IN  <<Line(k, FileVal(k), TRUE)>> \o FileText(S \ {k})

RECURSIVE EnvOf(_, _)
EnvOf(S, documented) ==
    IF S = {} THEN EnvHome
    ELSE LET k == CHOOSE x \in S : TRUE
         IN  ((IF documented THEN DocEnvKey(k) ELSE EnvKey(k)) :> EnvVal(k))
             @@ EnvOf(S \ {k}, documented)

ConfigEnvs ==
    {EnvOf(S, d) : S \in LayerSets, d \in BOOLEAN}
    \cup {EnvHome @@ (EnvKey(KTimeout) :> <<"a","b","c">>),
          EnvHome @@ (EnvKey(KLevel) :> <<>>)}

CfgPath == DiscoverPaths(EnvHome, BaseDisk, <<>>).paths.configFile

ConfigDisks ==
    {BaseDisk}
    \cup {Put(MkdirAll(BaseDisk, Dir(CfgPath)).fs, CfgPath, FileEntry("rw", FileText(S))) :
            S \in LayerSets}
    \cup {Put(MkdirAll(BaseDisk, Dir(CfgPath)).fs, CfgPath, FileEntry("rw", MalformedText))}

ConfigInit ==
    /\ env \in ConfigEnvs
    /\ tty = FALSE
    /\ fs \in ConfigDisks
    /\ flags \in {[defaultFlags EXCEPT !.dryRun = d] : d \in BOOLEAN}
    /\ command = NoCommand
    /\ pc = "config"
    /\ Fresh
    /\ hist = [fs0 |-> fs, prev |-> <<>>, cur |-> <<>>, dirty |-> FALSE, same |-> FALSE]
    /\ workers = <<>>

\* cfg, err := LoadOrInitConfig(paths, flags)
LoadStep ==
    /\ pc = "config" /\ out = <<>>
    /\ \E r \in {LoadOrInitConfig(env, fs, CfgPath, flags.dryRun)} :
           /\ out' = <<[err |-> r.err, cfg |-> r.cfg]>>
           /\ fs' = r.fs
    /\ UNCHANGED <<env, tty, flags, command, pc, stage, paths, cfg, logSettings, rtx,
                   err, handle, closeCalls, stderr, hist, workers>>

SpecConfig == ConfigInit /\ [][LoadStep]_vars

\* the value of a field of an AppConfig, as a sequence
FieldOf(c, k) ==
    CASE k = KProfile -> c.profile
      [] k = KLevel -> c.logging.level
      [] k = KFile -> c.logging.file
      [] k = KParallelism -> c.runtime.parallelism
      [] k = KTimeout -> c.runtime.timeout
      [] k = KFailFast -> <<c.runtime.fail_fast>>
      [] k = KDataDir -> c.paths.data_dir
      [] k = KStateDir -> c.paths.state_dir

\* a raw value read as the type of the field
TypedAs(k, raw) ==
    IF k \in {KParallelism, KTimeout} THEN Atoi(raw)
    ELSE IF k = KFailFast THEN ParseBool(raw)
    ELSE raw

\* the config file as the invocation found it
FoundDoc ==
    IF CfgPath \in DOMAIN hist.fs0 /\ ParseToml(hist.fs0[CfgPath].text).ok
    THEN ParseToml(hist.fs0[CfgPath].text).doc
    ELSE <<>>

\* environment over file over built-in default, for one field
Layered(k) ==
    IF EnvKey(k) \in DOMAIN env /\ env[EnvKey(k)] # <<>> THEN TypedAs(k, env[EnvKey(k)])
    ELSE IF k \in DOMAIN FoundDoc THEN TypedAs(k, FoundDoc[k])
    ELSE FieldOf(defaultConfig, k)

Loaded == out # <<>> /\ out[1].err = ""

\* C2: after a successful LoadOrInitConfig every field holds the value of its
\* environment variable when that is set, else the file's value when the file
\* has the key, else the built-in default.
C2_EnvOverFileOverDefault ==
    Loaded => \A k \in Keys : FieldOf(out[1].cfg, k) = Layered(k)

\* C3: with GO_CLI__LOGGING__LEVEL=debug in the environment the loaded
\* logging.level is debug.
C3_DocumentedVariable ==
    (Loaded /\ DocEnvKey(KLevel) \in DOMAIN env /\ env[DocEnvKey(KLevel)] = EnvVal(KLevel))
        => out[1].cfg.logging.level = EnvVal(KLevel)

\* C9: after a successful LoadOrInitConfig runtime.timeout is set, and it is 60,
\* the number in the generated default file, when neither the file nor the
\* environment gives one.
C9_TimeoutNeverUnset ==
    Loaded =>
        /\ out[1].cfg.runtime.timeout # <<>>
        /\ (~ViperGetEnv(env, KTimeout).ok /\ KTimeout \notin DOMAIN FoundDoc) =>
              /\ out[1].cfg.runtime.timeout = <<60>>
              /\ out[1].cfg.runtime.timeout = Atoi(ParseToml(defaultConfigBody).doc[KTimeout])

C9_Witness ==
    /\ Loaded
    /\ CfgPath \in DOMAIN hist.fs0
    /\ DOMAIN FoundDoc = {KLevel}
    /\ ~ViperGetEnv(env, KTimeout).ok
    /\ out[1].cfg.runtime.timeout = <<60>>

\* C27: with nothing set in the environment, LoadOrInitConfig on a disk
\* without config file writes the generated file and loads from it exactly
\* defaultConfig(); the generated file's live lines, the defaults registered
\* with viper and the fields of defaultConfig() are the defaults the schema
\* declares, and a key without a schema default is unset in all of them.
C27_DefaultsAgree ==
    (Loaded /\ ~flags.dryRun /\ CfgPath \notin DOMAIN hist.fs0
        /\ \A k \in Keys : ~ViperGetEnv(env, k).ok) =>
        /\ fs[CfgPath].text = defaultConfigHeader(CfgPath) \o defaultConfigBody
        /\ out[1].cfg = defaultConfig
        /\ ParseToml(defaultConfigBody).doc = configSchemaDefaults
        /\ ViperDefaults(defaultConfig) = configSchemaDefaults
        /\ \A k \in Keys :
              FieldOf(defaultConfig, k) =
                 IF k \in DOMAIN configSchemaDefaults THEN TypedAs(k, configSchemaDefaults[k])
                 ELSE <<>>

C27_Witness ==
    /\ Loaded /\ ~flags.dryRun /\ env = EnvHome
    /\ hist.fs0 = BaseDisk
    /\ fs[CfgPath].text = defaultConfigHeader(CfgPath) \o defaultConfigBody
    /\ out[1].cfg.profile = SDefault
    /\ out[1].cfg.logging = [level |-> SInfo, file |-> <<>>]
    /\ out[1].cfg.runtime = [parallelism |-> <<>>, timeout |-> <<60>>, fail_fast |-> TRUE]
    /\ out[1].cfg.paths = [data_dir |-> <<>>, state_dir |-> <<>>]

\* ------------------------------------------------------------------------
\* ResolveLogSettings on its own: every combination of the level flags

\* the largest number of -v given
MaxVerbose == 3

LevelStrings ==
    { <<>>,
      <<"e","r","r","o","r">>, <<"w","a","r","n">>, <<"i","n","f","o">>,
      <<"d","e","b","u","g">>, <<"t","r","a","c","e">>,
      <<"D","E","B","U","G">>, <<"T","r","a","c","e">>, <<"E","r","r","o","r">>,
      <<"W","A","R","N">>,
      <<"w","a","r","n","i","n","g">>, <<"v","e","r","b","o","s","e">> }

LevelInit ==
    /\ env = EnvHome
    /\ tty \in BOOLEAN
    /\ fs \in {BaseDisk,
               Put(BaseDisk, LogFile, [FileEntry("rw", <<>>) EXCEPT !.log = <<"earlier", NewLine>>])}
    /\ flags \in {[defaultFlags EXCEPT !.trace = t, !.debug = d, !.verbose = v, !.quiet = q,
                                       !.dryRun = dry, !.color = c, !.noColor = n] :
                    t \in BOOLEAN, d \in BOOLEAN, v \in 0..MaxVerbose, q \in BOOLEAN,
                    dry \in BOOLEAN, c \in {"auto", "always", "never"}, n \in BOOLEAN}
    /\ command = NoCommand
    /\ pc = "level"
    /\ stage = "Uninitialized"
    /\ paths = zeroPaths
    /\ cfg \in {[defaultConfig EXCEPT !.logging.level = s, !.logging.file = lf] :
                  s \in LevelStrings, lf \in {<<>>, LogFile, <<"/", "nodir", "/", "app.log">>}}
    /\ logSettings = zeroLogSettings
    /\ rtx = <<>>
    /\ err = ""
    /\ handle = "none"
    /\ closeCalls = 0
    /\ stderr = <<>>
    /\ out = <<>>
    /\ hist = [fs0 |-> fs, prev |-> <<>>, cur |-> <<>>, dirty |-> FALSE, same |-> FALSE]
    /\ workers = <<>>

\* logSettings, err := ResolveLogSettings(flags, cfg)
ResolveStep ==
    /\ pc = "level" /\ out = <<>>
    /\ LET r == ResolveLogSettings(fs, flags, cfg, tty)
       IN  /\ out' = <<[err |-> r.err, settings |-> r.settings]>>
           /\ fs' = r.fs
           /\ logSettings' = r.settings
    /\ UNCHANGED <<env, tty, flags, command, pc, stage, paths, cfg, rtx, err, handle,
                   closeCalls, stderr, hist, workers>>

SpecLevel == LevelInit /\ [][ResolveStep]_vars

\* the level a configured string names, whatever its case; info for any other
ConfiguredLevel(s) ==
    CASE s \in {<<"e","r","r","o","r">>, <<"E","r","r","o","r">>} -> LevelError
      [] s \in {<<"w","a","r","n">>, <<"W","A","R","N">>} -> LevelWarn
      [] s \in {<<"d","e","b","u","g">>, <<"D","E","B","U","G">>} -> LevelDebug
      [] s \in {<<"t","r","a","c","e">>, <<"T","r","a","c","e">>} -> LevelTrace
      [] OTHER -> LevelInfo

\* C4: the level ResolveLogSettings returns is that of the first rule that
\* applies: trace flag, trace; debug flag, debug; two or more -v, trace; one
\* -v, debug; quiet, error; else the configured level, read without regard to
\* case, info when it is not a level name.  Under quiet alone the level is
\* never above the configured one.
C4_LevelPrecedence ==
    (out # <<>> /\ out[1].err = "") =>
        /\ out[1].settings.level =
              IF flags.trace THEN LevelTrace
              ELSE IF flags.debug THEN LevelDebug
              ELSE IF flags.verbose >= 2 THEN LevelTrace
              ELSE IF flags.verbose = 1 THEN LevelDebug
              ELSE IF flags.quiet THEN LevelError
              ELSE ConfiguredLevel(cfg.logging.level)
        /\ (flags.quiet /\ ~flags.trace /\ ~flags.debug /\ flags.verbose = 0) =>
              out[1].settings.level <= ConfiguredLevel(cfg.logging.level)

C4_Witness ==
    /\ out # <<>>
    /\ flags.quiet /\ ~flags.trace /\ ~flags.debug /\ flags.verbose = 0
    /\ cfg.logging.level = <<"D","E","B","U","G">>
    /\ out[1].settings.level = LevelError

\* C14: the sinks are [stderr], or [discard] under quiet; a configured log
\* file is opened for append when the run is not a dry run, created if
\* missing and left as it was if present, and the sinks are then [stderr,
\* file], or [file] under quiet; a dry run opens no file and has no handle;
\* there is a handle exactly when the file is among the sinks.
C14_SinkList ==
    (out # <<>> /\ out[1].err = "") =>
        LET s == out[1].settings
            lf == cfg.logging.file
        IN  /\ s.writers =
                  IF lf # <<>> /\ ~flags.dryRun
                  THEN IF flags.quiet THEN <<"file">> ELSE <<"stderr", "file">>
                  ELSE IF flags.quiet THEN <<"discard">> ELSE <<"stderr">>
            /\ (s.fileHandle # <<>>) <=> (\E n \in 1..Len(s.writers) : s.writers[n] = "file")
            /\ (lf # <<>> /\ ~flags.dryRun) =>
                  /\ s.fileHandle = <<lf>>
                  /\ lf \in DOMAIN fs /\ fs[lf].kind = "file"
                  /\ lf \in DOMAIN hist.fs0 => fs = hist.fs0
                  /\ lf \notin DOMAIN hist.fs0 => fs = Put(hist.fs0, lf, FileEntry("rw", <<>>))
            /\ flags.dryRun => (s.fileHandle = <<>> /\ fs = hist.fs0)

C14_Witness ==
    /\ out # <<>> /\ out[1].err = ""
    /\ flags.quiet /\ ~flags.dryRun
    /\ cfg.logging.file = LogFile
    /\ LogFile \notin DOMAIN hist.fs0 /\ LogFile \in DOMAIN fs
    /\ out[1].settings.writers = <<"file">>
    /\ out[1].settings.fileHandle = <<LogFile>>

\* C17: colorize is false when noColor is set or the policy is never, true
\* when the policy is always and noColor is unset, and under auto true only
\* if the first sink selected is stderr and stderr is a terminal, so false
\* under auto with quiet.
C17_ColorizeFollowsPrimarySink ==
    (out # <<>> /\ out[1].err = "") =>
        LET s == out[1].settings
        IN  IF flags.noColor \/ flags.color = "never" THEN ~s.colorize
            ELSE IF flags.color = "always" THEN s.colorize
            ELSE s.colorize => (s.writers[1] = "stderr" /\ tty)

\* C18: --debug resolves to the level that -vv resolves to, for every
\* configured level and every value of quiet.
C18_DebugSameAsTwoVerbose ==
    (out # <<>> /\ out[1].err = "" /\ flags.debug /\ ~flags.trace /\ flags.verbose = 0) =>
        out[1].settings.level =
            ResolveLogSettings(hist.fs0, [flags EXCEPT !.debug = FALSE, !.verbose = 2],
                               cfg, tty).settings.level

\* ------------------------------------------------------------------------
\* Goroutines of a handler logging through the context's Logger.  The
\* severity methods and log have a value receiver: every call works on its
\* own copy of the Logger, settings and mutex alike.

\* goroutines logging at once
NumWorkers == 2

\* severity-method calls one goroutine makes
MaxCalls == 1

Workers == 1..NumWorkers

LoggerSettings ==
    {[level |-> lv, diagnostics |-> FALSE, colorize |-> FALSE, writers |-> ws,
      fileHandle |-> IF ws = <<"stderr">> THEN <<>> ELSE <<LogFile>>] :
        lv \in {LevelInfo}, ws \in {<<"stderr">>, <<"stderr", "file">>}}

LoggerInit ==
    /\ env = EnvHome
    /\ tty = FALSE
    /\ flags = defaultFlags
    /\ command = [name |-> "run", force |-> FALSE, task |-> "default", profile |-> <<>>]
    /\ pc = "handler"
    /\ stage = "Ready"
    /\ paths = DiscoverPaths(EnvHome, BaseDisk, <<>>).paths
    /\ cfg = defaultConfig
    /\ logSettings \in LoggerSettings
    /\ fs = IF logSettings.fileHandle = <<>> THEN BaseDisk
            ELSE Put(BaseDisk, LogFile, FileEntry("rw", <<>>))
    /\ handle = IF logSettings.fileHandle = <<>> THEN "none" ELSE "open"
    /\ rtx = <<[Common |-> flags, Paths |-> paths, Config |-> cfg,
                Logger |-> ConfigureLogger(logSettings), LogSettings |-> logSettings]>>
    /\ err = ""
    /\ closeCalls = 0
    /\ stderr = <<>>
    /\ out = <<>>
    /\ hist = [fs0 |-> fs, prev |-> <<>>, cur |-> <<>>, dirty |-> FALSE, same |-> FALSE]
    /\ workers = [g \in Workers |->
                    [pc |-> "idle", level |-> LevelError,
                     l |-> ConfigureLogger(zeroLogSettings), i |-> 0, calls |-> 0]]

WorkerFrame ==
    UNCHANGED <<env, tty, flags, command, pc, stage, paths, cfg, logSettings, rtx, err,
                handle, closeCalls, out, hist>>

Body(g) == <<"from worker 1", "from worker 2", "from worker 3", "from worker 4">>[g]

\* ctx.Logger.Error/Warn/Info/Debug/Trace(...): the receiver l is a copy of
\* the context's Logger; log returns at once when the level is filtered out
CallSeverity(g, lv) ==
    /\ workers[g].pc = "idle" /\ workers[g].calls < MaxCalls
    /\ workers' = [workers EXCEPT ![g] =
                      [pc |-> IF lv > Ctx.Logger.settings.level THEN "idle" ELSE "lock",
                       level |-> lv, l |-> Ctx.Logger, i |-> 0, calls |-> @.calls + 1]]
    /\ UNCHANGED <<fs, stderr>>
    /\ WorkerFrame

\* log: l.mu.Lock(), on the copy this call holds
Lock(g) ==
    /\ workers[g].pc = "lock"
    /\ workers[g].l.mu = "unlocked"
    /\ workers' = [workers EXCEPT ![g].l.mu = "locked", ![g].pc = "body", ![g].i = 1]
    /\ UNCHANGED <<fs, stderr>>
    /\ WorkerFrame

\* log: io.WriteString(w, formatted)
WriteBody(g) ==
    /\ workers[g].pc = "body"
    /\ LET me == workers[g]
           w == WriteString(me.l.settings.writers[me.i],
                            formatMessage(me.level, me.l.settings, Body(g)),
                            me.l.settings, handle = "open", stderr, fs)
       IN  /\ stderr' = w.out
           /\ fs' = w.fs
    /\ workers' = [workers EXCEPT ![g].pc = "newline"]
    /\ WorkerFrame

\* log: io.WriteString(w, "\n"), then the next writer
WriteNewline(g) ==
    /\ workers[g].pc = "newline"
    /\ LET me == workers[g]
           w == WriteString(me.l.settings.writers[me.i], NewLine,
                            me.l.settings, handle = "open", stderr, fs)
       IN  /\ stderr' = w.out
           /\ fs' = w.fs
           /\ workers' = [workers EXCEPT
                 ![g].pc = IF me.i < Len(me.l.settings.writers) THEN "body" ELSE "unlock",
                 ![g].i = IF me.i < Len(me.l.settings.writers) THEN me.i + 1 ELSE me.i]
    /\ WorkerFrame

\* log: the deferred l.mu.Unlock()
Unlock(g) ==
    /\ workers[g].pc = "unlock"
    /\ workers' = [workers EXCEPT ![g].l.mu = "unlocked", ![g].pc = "idle"]
    /\ UNCHANGED <<fs, stderr>>
    /\ WorkerFrame

LoggerNext ==
    \E g \in Workers :
        \/ \E lv \in Levels : CallSeverity(g, lv)
        \/ Lock(g)
        \/ WriteBody(g)
        \/ WriteNewline(g)
        \/ Unlock(g)

SpecLogger == LoggerInit /\ [][LoggerNext]_vars

\* between Lock and Unlock
Holding(g) == workers[g].pc \in {"body", "newline", "unlock"}

\* every message on the stream is directly followed by its newline
WholeLines(stream) ==
    \A n \in 1..Len(stream) :
        stream[n] # NewLine => (n < Len(stream) /\ stream[n + 1] = NewLine)

\* C5: no two goroutines are between Lock and Unlock of a log call at the same
\* time, and once all calls have returned every message on every sink is
\* directly followed by its own newline.
C5_EmissionsExclusive ==
    /\ \A g, h \in Workers : (g # h /\ Holding(g)) => ~Holding(h)
    /\ (\A g \in Workers : workers[g].pc = "idle") =>
          /\ WholeLines(stderr)
          /\ \A p \in DOMAIN fs : WholeLines(fs[p].log)

\* ------------------------------------------------------------------------
\* The holder of a RuntimeContext: severity calls on its Logger and Close, in
\* any order.  out is the list of the calls made so far, each with what it
\* returned and what it did.

\* calls the holder makes on one context
MaxOps == 3

\* a Ready context as NewRuntimeContext assembles it from the resolved log
\* settings, or the nil context
CallerInit ==
    /\ env = EnvHome
    /\ tty = FALSE
    /\ \E q \in BOOLEAN, v \in 0..1 :
          flags = [defaultFlags EXCEPT !.quiet = q, !.verbose = v]
    /\ command = NoCommand
    /\ pc = "caller"
    /\ paths = DiscoverPaths(EnvHome, BaseDisk, <<>>).paths
    /\ \E s \in {<<"w","a","r","n">>, <<"t","r","a","c","e">>}, lf \in {<<>>, LogFile} :
          cfg = [defaultConfig EXCEPT !.logging.level = s, !.logging.file = lf]
    /\ \E r \in {ResolveLogSettings(BaseDisk, flags, cfg, tty)} :
          /\ logSettings = r.settings
          /\ fs = r.fs
          /\ handle = IF r.settings.fileHandle # <<>> THEN "open" ELSE "none"
    /\ \E isNil \in BOOLEAN :
          /\ stage = IF isNil THEN "Uninitialized" ELSE "Ready"
          /\ rtx = IF isNil THEN <<>>
                   ELSE <<[Common |-> flags, Paths |-> paths, Config |-> cfg,
                           Logger |-> ConfigureLogger(logSettings),
                           LogSettings |-> logSettings]>>
    /\ err = ""
    /\ closeCalls = 0
    /\ stderr = <<>>
    /\ out = <<>>
    /\ hist = [fs0 |-> fs, prev |-> <<>>, cur |-> <<>>, dirty |-> FALSE, same |-> FALSE]
    /\ workers = <<>>

\* ctx.Logger.Error/Warn/Info/Debug/Trace("msg")
SeverityCall(lv) ==
    /\ pc = "caller" /\ rtx # <<>> /\ Len(out) < MaxOps
    /\ \E w \in {Log(Ctx.Logger, lv, "msg", handle = "open", stderr, fs)} :
       LET Gained(before, after) == SubSeq(after, Len(before) + 1, Len(after))
       IN /\ stderr' = w.out
          /\ fs' = w.fs
          /\ out' = Append(out, [op |-> "log", level |-> lv, err |-> "", seq |-> w.seq,
                                 handle |-> handle, after |-> handle,
                                 stderr |-> Gained(stderr, w.out),
                                 file |-> IF LogFile \in DOMAIN fs
                                          THEN Gained(fs[LogFile].log, w.fs[LogFile].log)
                                          ELSE <<>>])
    /\ UNCHANGED <<env, tty, flags, command, pc, stage, paths, cfg, logSettings, rtx, err,
                   handle, closeCalls, hist, workers>>

\* err := rtx.Close()
CloseCall ==
    /\ pc = "caller" /\ Len(out) < MaxOps
    /\ \E c \in {Close(rtx, handle)} :
          /\ handle' = c.handle
          /\ err' = c.err
          /\ out' = Append(out, [op |-> "close", level |-> LevelError, err |-> c.err,
                                 seq |-> <<>>, handle |-> handle, after |-> c.handle,
                                 stderr |-> <<>>, file |-> <<>>])
    /\ closeCalls' = closeCalls + 1
    /\ UNCHANGED <<env, tty, fs, flags, command, pc, stage, paths, cfg, logSettings, rtx,
                   stderr, hist, workers>>

CallerNext ==
    \/ \E lv \in Levels : SeverityCall(lv)
    \/ CloseCall

SpecCaller == CallerInit /\ [][CallerNext]_vars

\* C11: Close on a nil context returns no error and changes nothing, and so
\* does every Close after the first on the same context, also when the
\* context owns a log-file handle.
C11_CloseTwiceSafe ==
    \A i \in 1..Len(out) :
        (out[i].op = "close" /\ (rtx = <<>> \/ \E j \in 1..(i - 1) : out[j].op = "close")) =>
            /\ out[i].err = ""
            /\ out[i].after = out[i].handle

\* C12: once Close has returned, no severity call writes on the closed
\* log-file handle.
C12_NoWriteAfterClose ==
    \A i \in 1..Len(out) :
        (out[i].op = "log" /\ out[i].handle = "closed") =>
            \A n \in 1..Len(out[i].seq) : out[i].seq[n].w # "file"

\* the line a severity call of the holder emits
CallerLine(lv) == <<formatMessage(lv, logSettings, "msg"), NewLine>>

\* C15: under --quiet with no verbosity flag a message of severity error
\* still arrives on the standard error stream, and a less severe one arrives
\* nowhere.
C15_QuietKeepsErrorsOnStderr ==
    (flags.quiet /\ flags.verbose = 0 /\ ~flags.debug /\ ~flags.trace) =>
        \A i \in 1..Len(out) :
            out[i].op = "log" =>
                IF out[i].level = LevelError
                THEN out[i].stderr = CallerLine(LevelError)
                ELSE out[i].stderr = <<>> /\ out[i].file = <<>>

\* C16: a log call of severity s on a logger of level L calls the write of
\* every sink once, in list order, with the formatted message and then the
\* newline when s <= L, and writes nothing when s > L; the line arrives on
\* stderr when stderr is a sink and in the log file when the file is a sink
\* and its handle is open.
C16_LogFiltersThenWritesEverySink ==
    \A i \in 1..Len(out) :
        out[i].op = "log" =>
            LET ws == Ctx.Logger.settings.writers
                line == CallerLine(out[i].level)
            IN  IF out[i].level <= logSettings.level
                THEN /\ out[i].seq = [n \in 1..(2 * Len(ws)) |->
                                        [w |-> ws[(n + 1) \div 2], item |-> line[2 - (n % 2)]]]
                     /\ out[i].stderr = IF \E n \in 1..Len(ws) : ws[n] = "stderr"
                                        THEN line ELSE <<>>
                     /\ out[i].handle = "open" => out[i].file = line
                     /\ out[i].handle = "none" => out[i].file = <<>>
                ELSE out[i].seq = <<>> /\ out[i].stderr = <<>> /\ out[i].file = <<>>

C16_Witness ==
    /\ Len(out) >= 2
    /\ logSettings.level = LevelWarn
    /\ logSettings.writers = <<"stderr", "file">>
    /\ out[1].op = "log" /\ out[1].level = LevelWarn /\ Len(out[1].seq) = 4
    /\ out[1].file = CallerLine(LevelWarn) /\ stderr = CallerLine(LevelWarn)
    /\ out[2].op = "log" /\ out[2].level = LevelInfo /\ out[2].seq = <<>>

\* ------------------------------------------------------------------------
\* expandPath and resolveConfigFile on their own: the path given is
\* flags.configPath

PathInputs ==
    { <<>>, <<"~">>, <<"~", "/", "logs", "/", "app.log">>, <<"$HOME", "/", "x">>,
      <<"~bob", "/", "x">>, <<"$UNSET", "/", "x">>, <<"$XDG_DATA_HOME", "/", "x">>,
      <<"/", "data", "/", "go-cli">>, <<"/", "data", "/", ".", "/", "go-cli", "/">>,
      <<"/", "a", "/", "..", "/", "b">>, <<"conf">> }

\* nothing at the path, a directory there, a file there
PathDisks(e, p) ==
    LET At(ex) ==
            IF ~ex.ok \/ ex.path \in DOMAIN BaseDisk \/ ex.path = <<>> THEN {BaseDisk}
            ELSE {BaseDisk, MkdirAll(BaseDisk, ex.path).fs,
                  Put(MkdirAll(BaseDisk, Dir(ex.path)).fs, ex.path,
                      FileEntry("rw", defaultConfigBody))}
    IN  At(expandPath(e, p))

PathInit ==
    /\ env \in {EnvHome, EnvXdg, EnvNone, [EnvXdg EXCEPT ![NHOME] = <<>>], <<>>}
    /\ tty = FALSE
    /\ \E p \in PathInputs :
          /\ flags = [defaultFlags EXCEPT !.configPath = p]
          /\ fs \in PathDisks(env, p)
    /\ command = NoCommand
    /\ pc = "path"
    /\ Fresh
    /\ hist = [fs0 |-> fs, prev |-> <<>>, cur |-> <<>>, dirty |-> FALSE, same |-> FALSE]
    /\ workers = <<>>

\* path, err := expandPath(flags.ConfigPath)
ExpandStep ==
    /\ pc = "path" /\ out = <<>>
    /\ \E r \in {expandPath(env, flags.configPath)} :
          out' = <<[op |-> "expandPath", ok |-> r.ok, path |-> r.path]>>
    /\ UNCHANGED <<env, tty, fs, flags, command, pc, stage, paths, cfg, logSettings, rtx,
                   err, handle, closeCalls, stderr, hist, workers>>

\* path, err := resolveConfigFile(appName, flags.ConfigPath)
ResolveConfigFileStep ==
    /\ pc = "path" /\ out = <<>>
    /\ \E r \in {resolveConfigFile(env, fs, flags.configPath)} :
          out' = <<[op |-> "resolveConfigFile", ok |-> r.ok, path |-> r.path]>>
    /\ UNCHANGED <<env, tty, fs, flags, command, pc, stage, paths, cfg, logSettings, rtx,
                   err, handle, closeCalls, stderr, hist, workers>>

PathNext == ExpandStep \/ ResolveConfigFileStep

SpecPath == PathInit /\ [][PathNext]_vars

\* C19: expandPath returns the empty path for the empty path; otherwise it
\* expands the environment references, then puts the home directory in place
\* of a leading "~" only when the expanded path is "~" or starts with "~/",
\* leaving "~user" as it is, then cleans; it fails only when that replacement
\* is needed and there is no home directory.  "~/logs/app.log" with home
\* /home/u is /home/u/logs/app.log, "$HOME/x" with HOME=/home/u is /home/u/x.
C19_ExpandPath ==
    (out # <<>> /\ out[1].op = "expandPath") =>
        LET p == flags.configPath
            x == ExpandEnv(env, p)
            home == UserHomeDir(env)
            tilde == x = <<"~">> \/ (Len(x) >= 2 /\ x[1] = "~" /\ x[2] = "/")
        IN  /\ IF p = <<>> THEN out[1].ok /\ out[1].path = <<>>
               ELSE IF tilde /\ ~home.ok THEN ~out[1].ok
               ELSE /\ out[1].ok
                    /\ out[1].path =
                          Clean(IF tilde THEN home.dir \o SubSeq(x, 2, Len(x)) ELSE x)
            /\ (env = EnvHome /\ p = <<"~", "/", "logs", "/", "app.log">>) =>
                  out[1].path = <<"/", "home", "/", "u", "/", "logs", "/", "app.log">>
            /\ (env = EnvHome /\ p = <<"$HOME", "/", "x">>) =>
                  out[1].path = <<"/", "home", "/", "u", "/", "x">>

\* C20: with a config-path override that expands, the config file is
\* config.toml inside the expanded override when that is an existing
\* directory and the expanded override itself otherwise, and the answer does
\* not depend on the default config directory: it is the same without
\* XDG_CONFIG_HOME and is given also when no default directory exists.
C20_OverrideNamesConfigFile ==
    (out # <<>> /\ out[1].op = "resolveConfigFile" /\ flags.configPath # <<>>) =>
        LET ex == expandPath(env, flags.configPath)
            isDir == ex.path \in DOMAIN fs /\ fs[ex.path].kind = "dir"
        IN  ex.ok =>
               /\ out[1].ok
               /\ out[1].path = IF isDir THEN ex.path \o <<"/", "config.toml">> ELSE ex.path
               /\ \A x \in {<<>>, <<"/", "elsewhere">>} :
                     resolveConfigFile((NXDG_CONFIG_HOME :> x) @@ env,
                                       fs, flags.configPath).path = out[1].path

C20_Witness ==
    /\ out # <<>> /\ out[1].op = "resolveConfigFile"
    /\ flags.configPath = <<"/", "data", "/", ".", "/", "go-cli", "/">>
    /\ ~defaultConfigDir(env).ok
    /\ <<"/", "data", "/", "go-cli">> \in DOMAIN fs
    /\ fs[<<"/", "data", "/", "go-cli">>].kind = "dir"
    /\ out[1].path = <<"/", "data", "/", "go-cli", "/", "config.toml">>

=============================================================================
